---- MODULE Spec2Model ----
(***************************************************************************)
(* Model of pyxray: the descriptor value objects (descriptor.py), the      *)
(* reference-priority property lookup exercised by test_element_data.py,   *)
(* and the transition catalogue, parser and queries of transition.py.      *)
(*                                                                         *)
(* Three independent state machines share the module and leave each        *)
(* other's variables untouched: the descriptors (SpecDescriptor), the      *)
(* property store (SpecSql) and transition.py (Spec, and SpecParse for     *)
(* from_string alone).                                                     *)
(***************************************************************************)
EXTENDS Integers, Sequences, FiniteSets, TLC

VARIABLES cache, cacheBefore, dlast,
          rows, reference_priority, qlast,
          tdata, tlast,
          carlson_file, carlson_data, krause_data, instance, slast

descVars == <<cache, cacheBefore, dlast>>
sqlVars == <<rows, reference_priority, qlast>>
transVars == <<tdata, tlast>>
shellVars == <<carlson_file, carlson_data, krause_data, instance, slast>>
vars == <<cache, cacheBefore, dlast, rows, reference_priority, qlast, tdata, tlast,
          carlson_file, carlson_data, krause_data, instance, slast>>

Abs(x) == IF x < 0 THEN -x ELSE x

(***************************************************************************)
(* Bounds of the descriptor machine.                                       *)
(***************************************************************************)
\* largest principal quantum number tried
MaxN == 2
\* largest number of instances the cache holds
MaxCache == 4

(***************************************************************************)
(* descriptor.py                                                           *)
(*                                                                         *)
(* A value is a record [cls, attrs].  A Python int n is [cls |-> "int",    *)
(* attrs |-> <<n>>], so that isinstance(atomic_shell, AtomicShell) is a    *)
(* test on cls.  A Python str is a sequence of one-character strings.      *)
(***************************************************************************)
PyInt(n) == [cls |-> "int", attrs |-> <<n>>]
Val(c, a) == [cls |-> c, attrs |-> a]

\* str.lower(), one character, over the letters the strings tried are made of
LowerChar(c) ==
    LET Upper == <<"D", "E", "F", "H", "N", "O", "S">>
        Lower == <<"d", "e", "f", "h", "n", "o", "s">>
    IN IF \E i \in 1..Len(Upper) : Upper[i] = c
       THEN Lower[CHOOSE i \in 1..Len(Upper) : Upper[i] = c]
       ELSE c

\* str.lower()
StrLower(s) == [i \in 1..Len(s) |-> LowerChar(s[i])]

Ok(a) == [ok |-> TRUE, attrs |-> a, err |-> "none"]
Raise(msg) == [ok |-> FALSE, attrs |-> <<>>, err |-> msg]

\* Element.validate
Element_validate(args) ==
    IF args[1] < 1 \/ args[1] > 118
    THEN Raise("Atomic number must be [1, 118]")
    ELSE Ok(args)

\* AtomicShell.validate
AtomicShell_validate(args) ==
    IF args[1] < 1
    THEN Raise("Principal quantum number must be [1, inf[")
    ELSE Ok(args)

\* 2 * abs(l - 0.5): exact in binary floating point, an odd integer
jmin_n(l) == Abs(2 * l - 1)

\* 2 * abs(l + 0.5)
jmax_n(l) == Abs(2 * l + 1)

\* The range test of lines 71-72, with the numerator compared as a number.
AcceptsJn(l, j) == ~(j < jmin_n(l) \/ j > jmax_n(l))

\* Lines 59-60: an int is wrapped by constructing AtomicShell(n), which
\* validates n; an AtomicShell instance is used as it is.
WrapShell(shell) ==
    IF shell.cls = "AtomicShell" THEN Ok(shell)
    ELSE LET v == AtomicShell_validate(shell.attrs)
         IN IF v.ok THEN Ok(Val("AtomicShell", v.attrs)) ELSE v

\* AtomicSubshell.validate without lines 59-60: the shell is kept as passed
AtomicSubshell_validate_unwrapped(args) ==
    LET w == WrapShell(args[1])
    IN IF ~w.ok THEN w
       ELSE IF args[2] < 0 \/ args[2] > w.attrs.attrs[1] - 1
       THEN Raise("Azimuthal quantum number must be between [lmin, lmax]")
       ELSE IF ~AcceptsJn(args[2], args[3])
       THEN Raise("Total angular momentum must be between [jmin_n, jmax_n]")
       ELSE Ok(args)

\* AtomicSubshell.validate
AtomicSubshell_validate(args) ==
    LET w == WrapShell(args[1])
        l == args[2]
        j == args[3]
    IN IF ~w.ok THEN w
       ELSE LET atomic_shell == w.attrs
                lmin == 0
                lmax == atomic_shell.attrs[1] - 1
            IN IF l < lmin \/ l > lmax
               THEN Raise("Azimuthal quantum number must be between [lmin, lmax]")
               ELSE IF ~AcceptsJn(l, j)
               THEN Raise("Total angular momentum must be between [jmin_n, jmax_n]")
               ELSE Ok(<<atomic_shell, l, j>>)

\* Transition.validate: no check (lines 118-145)
Transition_validate(args) == Ok(args)

\* Transition.is_radiative: secondary_destination_subshell is None
is_radiative(self) == self.attrs[3] = Val("None", <<>>)

\* Transition.is_nonradiative
is_nonradiative(self) == ~is_radiative(self)

\* Transition.is_coster_kronig: source_subshell.n == destination_subshell.n,
\* n being the principal quantum number of the subshell's atomic shell
is_coster_kronig(self) == self.attrs[1].attrs[1].attrs[1] = self.attrs[2].attrs[1].attrs[1]

\* TransitionSet.validate: frozenset(transitions)
TransitionSet_validate(args) == Ok(<<{args[1][i] : i \in 1..Len(args[1])}>>)

\* Language.validate
Language_validate(args) ==
    LET lencode == Len(args[1])
    IN IF lencode < 2 \/ lencode > 3
       THEN Raise("Code must be between 2 and 3 characters")
       ELSE Ok(<<StrLower(args[1])>>)

\* Notation.validate
Notation_validate(args) ==
    IF args[1] = <<>> THEN Raise("Name cannot be empty")
    ELSE Ok(<<StrLower(args[1])>>)

\* Reference.validate; the optional fields are left at their default None
Reference_validate(args) ==
    IF args[1] = <<>> THEN Raise("A BibTeX key must be defined")
    ELSE Ok(args)

Classes == {"Element", "AtomicShell", "AtomicSubshell", "Transition",
            "TransitionSet", "Language", "Notation", "Reference"}

Validate(cls, args) ==
    CASE cls = "Element" -> Element_validate(args)
      [] cls = "AtomicShell" -> AtomicShell_validate(args)
      [] cls = "AtomicSubshell" -> AtomicSubshell_validate(args)
      [] cls = "Transition" -> Transition_validate(args)
      [] cls = "TransitionSet" -> TransitionSet_validate(args)
      [] cls = "Language" -> Language_validate(args)
      [] cls = "Notation" -> Notation_validate(args)
      [] cls = "Reference" -> Reference_validate(args)

(***************************************************************************)
(* The interning cache of _Descriptor (Immutable, Cachable, Validable).    *)
(* cache[cls] is the set of interned instances of cls; an instance keeps   *)
(* its validated attributes and the arguments of the call that created it. *)
(***************************************************************************)
CacheSize(c) == Cardinality(UNION {c[k] : k \in Classes})

Cached(c, cls, attrs) == \E e \in c[cls] : e.attrs = attrs

Instance(c, cls, attrs) == CHOOSE e \in c[cls] : e.attrs = attrs

\* the cache after interning (cls, attrs): unchanged when it is there already
Intern(c, cls, attrs, args) ==
    IF Cached(c, cls, attrs) THEN c
    ELSE [c EXCEPT ![cls] = @ \cup {[cls |-> cls, attrs |-> attrs,
                                      args |-> args]}]

\* Equality and hashing of instances: by class and validated attributes.
DescEq(a, b) == a.cls = b.cls /\ a.attrs = b.attrs

DescHash(a) == <<a.cls, a.attrs>>

\* The cache after the constructions validate itself performs: the
\* AtomicShell(n) of AtomicSubshell.validate, made before l and j_n are checked.
AfterNested(c, cls, args) ==
    IF cls = "AtomicSubshell" /\ args[1].cls = "int"
       /\ AtomicShell_validate(args[1].attrs).ok
    THEN Intern(c, "AtomicShell", args[1].attrs, args[1].attrs)
    ELSE c

\* the descriptors among the arguments of a call
ArgObjects(cls, args) ==
    CASE cls = "AtomicSubshell" -> {o \in {args[1]} : o.cls = "AtomicShell"}
      [] cls = "Transition" -> {args[i] : i \in 1..3} \ {Val("None", <<>>)}
      [] cls = "TransitionSet" -> {args[1][i] : i \in 1..Len(args[1])}
      [] OTHER -> {}

NoCall == [cls |-> "none", args |-> <<>>, ok |-> FALSE, err |-> "none",
           obj |-> [cls |-> "none", attrs |-> <<>>, args |-> <<>>]]

\* cls(*args): validate, then return the interned instance, creating it
\* when there is none.  A descriptor passed as an argument was constructed
\* before the call, so it is interned.
Construct(cls, args) ==
    LET v == Validate(cls, args)
        c1 == AfterNested(cache, cls, args)
        c2 == IF v.ok THEN Intern(c1, cls, v.attrs, args) ELSE c1
    IN /\ dlast = NoCall
       /\ \A o \in ArgObjects(cls, args) : Cached(cache, o.cls, o.attrs)
       /\ CacheSize(c2) <= MaxCache
       /\ cache' = c2
       /\ cacheBefore' = cache
       /\ dlast' = [cls |-> cls, args |-> args, ok |-> v.ok, err |-> v.err,
                    obj |-> IF v.ok THEN Instance(c2, cls, v.attrs)
                            ELSE [cls |-> "none", attrs |-> <<>>, args |-> <<>>]]
       /\ UNCHANGED <<sqlVars, transVars, shellVars>>

(***************************************************************************)
(* Arguments tried by the descriptor machine.                              *)
(***************************************************************************)
\* the subshells K, L2 and L3, and the transition arguments made of them
SubshellObjects ==
    [K |-> Val("AtomicSubshell", <<Val("AtomicShell", <<1>>), 0, 1>>),
     L2 |-> Val("AtomicSubshell", <<Val("AtomicShell", <<2>>), 1, 1>>),
     L3 |-> Val("AtomicSubshell", <<Val("AtomicShell", <<2>>), 1, 3>>)]

ArgsOf(cls) ==
    CASE cls = "Element" -> {<<0>>, <<1>>, <<118>>, <<119>>}
      [] cls = "AtomicShell" -> {<<n>> : n \in 0..MaxN}
      [] cls = "AtomicSubshell" ->
            {<<s, l, j>> : s \in {PyInt(n) : n \in 0..MaxN}
                                      \cup {Val("AtomicShell", <<n>>) : n \in 1..MaxN},
                           l \in (-1)..MaxN, j \in 0..(2 * MaxN + 1)}
      [] cls = "Transition" ->
            {<<s, d, x>> : s \in {SubshellObjects.L2, SubshellObjects.L3},
                           d \in {SubshellObjects.K, SubshellObjects.L2},
                           x \in {Val("None", <<>>), SubshellObjects.L3}}
      \* the transitions L3 -> L2 and L3 -> K, and the sequences made of them
      [] cls = "TransitionSet" ->
            LET a == Val("Transition",
                         <<SubshellObjects.L3, SubshellObjects.L2, Val("None", <<>>)>>)
                b == Val("Transition",
                         <<SubshellObjects.L3, SubshellObjects.K, Val("None", <<>>)>>)
            IN {<< <<>> >>, << <<a>> >>, << <<a, b>> >>, << <<b, a>> >>}
      [] cls = "Language" ->
            {<< <<"E", "N">> >>, << <<"e", "n">> >>, << <<"D", "e">> >>,
             << <<"e">> >>, << <<"e", "n", "s", "d">> >>}
      [] cls = "Notation" -> {<< <<>> >>, << <<"S">> >>, << <<"s">> >>}
      [] cls = "Reference" -> {<< <<>> >>, << <<"r">> >>}

EmptyCache == [k \in Classes |-> {}]

InitDescriptor ==
    /\ cache = EmptyCache
    /\ cacheBefore = EmptyCache
    /\ dlast = NoCall

\* the caller takes the instance, or the error, of the last construction
TakeInstance ==
    /\ dlast # NoCall
    /\ dlast' = NoCall
    /\ cacheBefore' = cache
    /\ UNCHANGED <<cache, sqlVars, transVars, shellVars>>

NextDescriptor ==
    \/ \E cls \in Classes : \E args \in ArgsOf(cls) : Construct(cls, args)
    \/ TakeInstance

(***************************************************************************)
(* The element property store and its reference-priority lookup            *)
(* (SqlEngineElementDatabase, driven as in test_element_data.py).          *)
(*                                                                         *)
(* rows is the list of data tuples in insertion order; as in               *)
(* create_mock_database each tuple gives one row, tagged with its          *)
(* reference, to the symbol table and to the atomic-weight table.          *)
(***************************************************************************)
\* largest number of data tuples inserted
MaxRows == 3
\* longest reference-priority list assigned
MaxPrio == 2

NoRef == "None"
RowRefs == {"ref1", "ref2"}
Refs == RowRefs \cup {"ref3"}

\* the symbol column of the data of create_mock_database
SymbolOfZ(z) == IF z = 26 THEN <<"F", "e">> ELSE <<"O">>


NoQuery == [kind |-> "none", subject |-> <<>>, reference |-> NoRef,
            ok |-> FALSE, row |-> 0, value |-> <<>>, err |-> "none"]

\* session.add of one data tuple (z, symbol, aw, ref)
AddData(z, aw, ref) ==
    /\ qlast = NoQuery
    /\ Len(rows) < MaxRows
    /\ ~\E i \in 1..Len(rows) : rows[i].z = z /\ rows[i].reference = ref
    /\ rows' = Append(rows, [z |-> z, symbol |-> SymbolOfZ(z), value |-> aw, reference |-> ref])
    /\ UNCHANGED <<reference_priority, qlast, descVars, transVars, shellVars>>

\* db.reference_priority = [...]
SetPriority(p) ==
    /\ qlast = NoQuery
    /\ reference_priority' = p
    /\ UNCHANGED <<rows, qlast, descVars, transVars, shellVars>>

First(S) == CHOOSE i \in S : \A j \in S : i <= j

Last(S) == CHOOSE i \in S : \A j \in S : j <= i

\* the first reference of the priority list with a row among S, as a position
PriorityHits(S) ==
    {k \in 1..Len(reference_priority) :
        \E i \in S : rows[i].reference = reference_priority[k]}

\* SelectRow with the priority list left out of the choice
SelectRow_IgnoringPriority(S, reference) ==
    IF reference # NoRef
    THEN LET T == {i \in S : rows[i].reference = reference}
         IN IF T = {} THEN 0 ELSE First(T)
    ELSE IF S = {} THEN 0
    ELSE First(S)

\* SelectRow falling back to any row when the reference asked for has none
SelectRow_FallingThrough(S, reference) ==
    IF reference # NoRef /\ {i \in S : rows[i].reference = reference} # {}
    THEN First({i \in S : rows[i].reference = reference})
    ELSE IF S = {} THEN 0
    ELSE IF PriorityHits(S) # {}
    THEN First({i \in S : rows[i].reference = reference_priority[First(PriorityHits(S))]})
    ELSE First(S)

\* SelectRow falling back to the row inserted last
SelectRow_LastInserted(S, reference) ==
    IF reference # NoRef
    THEN LET T == {i \in S : rows[i].reference = reference}
         IN IF T = {} THEN 0 ELSE First(T)
    ELSE IF S = {} THEN 0
    ELSE IF PriorityHits(S) # {}
    THEN First({i \in S : rows[i].reference = reference_priority[First(PriorityHits(S))]})
    ELSE Last(S)

\* The row a query selects among the rows S of its subject; 0 when none.
SelectRow(S, reference) ==
    IF reference # NoRef
    THEN LET T == {i \in S : rows[i].reference = reference}
         IN IF T = {} THEN 0 ELSE First(T)
    ELSE IF S = {} THEN 0
    ELSE IF PriorityHits(S) # {}
    THEN First({i \in S : rows[i].reference = reference_priority[First(PriorityHits(S))]})
    ELSE First(S)

Found(kind, subject, reference, i, v) ==
    [kind |-> kind, subject |-> subject, reference |-> reference,
     ok |-> TRUE, row |-> i, value |-> v, err |-> "none"]

NotFound(kind, subject, reference) ==
    [kind |-> kind, subject |-> subject, reference |-> reference,
     ok |-> FALSE, row |-> 0, value |-> <<>>, err |-> "ValueError"]

\* db.symbol(z, reference) and db.atomic_weight(z, reference)
LookupByZ(kind, z, reference) ==
    LET i == SelectRow({k \in 1..Len(rows) : rows[k].z = z}, reference)
    IN IF i = 0 THEN NotFound(kind, <<z>>, reference)
       ELSE Found(kind, <<z>>, reference, i,
                  IF kind = "symbol" THEN rows[i].symbol ELSE <<rows[i].value>>)

\* db.atomic_number(symbol, reference): the symbol is matched without case
LookupBySymbol(symbol, reference) ==
    LET i == SelectRow({k \in 1..Len(rows) : StrLower(rows[k].symbol) = StrLower(symbol)},
                       reference)
    IN IF i = 0 THEN NotFound("atomic_number", symbol, reference)
       ELSE Found("atomic_number", symbol, reference, i, <<rows[i].z>>)

QueryByZ(kind, z, reference) ==
    /\ qlast = NoQuery
    /\ qlast' = LookupByZ(kind, z, reference)
    /\ UNCHANGED <<rows, reference_priority, descVars, transVars, shellVars>>

QueryBySymbol(symbol, reference) ==
    /\ qlast = NoQuery
    /\ qlast' = LookupBySymbol(symbol, reference)
    /\ UNCHANGED <<rows, reference_priority, descVars, transVars, shellVars>>

\* the caller takes the value, or the error, of the last query
TakeValue ==
    /\ qlast # NoQuery
    /\ qlast' = NoQuery
    /\ UNCHANGED <<rows, reference_priority, descVars, transVars, shellVars>>

InitSql ==
    /\ rows = <<>>
    /\ reference_priority = <<>>
    /\ qlast = NoQuery

\* The data are those of create_mock_database, the atomic weights in units
\* that keep 55.845 and 58.0 apart; the queries add a subject without rows.
NextSql ==
    \/ \E z \in {8, 26} : \E aw \in {55, 58} : \E ref \in RowRefs : AddData(z, aw, ref)
    \/ \E p \in UNION {[1..n -> Refs] : n \in 0..MaxPrio} : SetPriority(p)
    \/ \E kind \in {"symbol", "atomic_weight"} : \E z \in {1, 8, 26} :
          \E ref \in Refs \cup {NoRef} : QueryByZ(kind, z, ref)
    \/ \E sym \in {<<"F", "e">>, <<"f", "e">>, <<"O">>, <<"o">>, <<"H">>} :
          \E ref \in Refs \cup {NoRef} : QueryBySymbol(sym, ref)
    \/ TakeValue

(***************************************************************************)
(* transition.py                                                           *)
(*                                                                         *)
(* A string is a sequence of characters; the Greek letters and the prime   *)
(* of the Unicode Siegbahn form are the characters "alpha", "beta",        *)
(* "gamma", "zeta", "eta", "nu", "ell" and "prime".                        *)
(***************************************************************************)
\* str.replace(a, b) for one-character a and b
Replace(str, a, b) == [i \in 1..Len(str) |-> IF str[i] = a THEN b ELSE str[i]]

\* _siegbahn_ascii_to_unicode without the replacement of g by gamma
_siegbahn_ascii_to_unicode_without_gamma(siegbahn) ==
    LET s1 == Replace(siegbahn, "a", "alpha")
        s2 == Replace(s1, "b", "beta")
        s4 == Replace(s2, "z", "zeta")
        s5 == Replace(s4, "n", "eta")
        s6 == Replace(s5, "v", "nu")
        s7 == Replace(s6, "l", "ell")
    IN Replace(s7, "'", "prime")

_siegbahn_ascii_to_unicode(siegbahn) ==
    LET s1 == Replace(siegbahn, "a", "alpha")
        s2 == Replace(s1, "b", "beta")
        s3 == Replace(s2, "g", "gamma")
        s4 == Replace(s3, "z", "zeta")
        s5 == Replace(s4, "n", "eta")
        s6 == Replace(s5, "v", "nu")
        s7 == Replace(s6, "l", "ell")
    IN Replace(s7, "'", "prime")

_siegbahn_unicode_to_ascii(siegbahn) ==
    LET s1 == Replace(siegbahn, "alpha", "a")
        s2 == Replace(s1, "beta", "b")
        s3 == Replace(s2, "gamma", "g")
        s4 == Replace(s3, "zeta", "z")
        s5 == Replace(s4, "eta", "n")
        s6 == Replace(s5, "nu", "v")
        s7 == Replace(s6, "ell", "l")
    IN Replace(s7, "prime", "'")

\* Subshells (source, destination, satellite) of all transitions, the
\* satellites appended.
_SUBSHELLS ==
    <<<<4, 1, 0>>, <<3, 1, 0>>, <<7, 1, 0>>, <<12, 1, 0>>, <<6, 1, 0>>, <<14, 1, 0>>,
      <<9, 1, 0>>, <<11, 4, 0>>, <<12, 4, 0>>, <<18, 4, 0>>, <<19, 4, 0>>, <<24, 4, 0>>,
      <<9, 4, 0>>, <<8, 4, 0>>, <<13, 4, 0>>, <<14, 4, 0>>, <<20, 4, 0>>, <<10, 4, 0>>,
      <<17, 4, 0>>, <<5, 4, 0>>, <<7, 4, 0>>, <<6, 4, 0>>, <<15, 4, 0>>, <<6, 3, 0>>,
      <<9, 3, 0>>, <<11, 3, 0>>, <<12, 3, 0>>, <<14, 3, 0>>, <<18, 3, 0>>, <<19, 3, 0>>,
      <<25, 3, 0>>, <<8, 3, 0>>, <<7, 3, 0>>, <<13, 3, 0>>, <<10, 3, 0>>, <<20, 3, 0>>,
      <<17, 3, 0>>, <<5, 3, 0>>, <<15, 3, 0>>, <<5, 2, 0>>, <<10, 2, 0>>, <<13, 2, 0>>,
      <<17, 2, 0>>, <<20, 2, 0>>, <<8, 2, 0>>, <<7, 2, 0>>, <<6, 2, 0>>, <<9, 2, 0>>,
      <<11, 2, 0>>, <<14, 2, 0>>, <<12, 2, 0>>, <<19, 2, 0>>, <<18, 2, 0>>, <<11, 5, 0>>,
      <<12, 5, 0>>, <<8, 6, 0>>, <<10, 6, 0>>, <<13, 6, 0>>, <<20, 6, 0>>, <<8, 7, 0>>,
      <<9, 7, 0>>, <<10, 7, 0>>, <<13, 7, 0>>, <<17, 7, 0>>, <<20, 7, 0>>, <<21, 7, 0>>,
      <<14, 7, 0>>, <<12, 8, 0>>, <<18, 8, 0>>, <<15, 8, 0>>, <<11, 8, 0>>, <<19, 9, 0>>,
      <<16, 9, 0>>, <<15, 9, 0>>, <<12, 9, 0>>, <<15, 13, 0>>, <<15, 14, 0>>, <<4, 1, 1>>,
      <<4, 1, 2>>, <<4, 1, 3>>, <<4, 1, 4>>, <<4, 1, 5>>, <<4, 1, 6>>, <<7, 1, 1>>>>

\* Siegbahn symbols of all transitions, the satellites appended.
_SIEGBAHNS ==
    <<<<"K", "alpha", "1">>, <<"K", "alpha", "2">>, <<"K", "beta", "1">>, <<"K", "beta", "2">>,
      <<"K", "beta", "3">>, <<"K", "beta", "4">>, <<"K", "beta", "5">>, <<"L", "3", "N", "2">>,
      <<"L", "3", "N", "3">>, <<"L", "3", "O", "2">>, <<"L", "3", "O", "3">>, <<"L", "3", "P", "1">>,
      <<"L", "alpha", "1">>, <<"L", "alpha", "2">>, <<"L", "beta", "1", "5">>, <<"L", "beta", "2">>,
      <<"L", "beta", "5">>, <<"L", "beta", "6">>, <<"L", "beta", "7">>, <<"L", "ell">>,
      <<"L", "s">>, <<"L", "t">>, <<"L", "u">>, <<"L", "2", "M", "2">>,
      <<"L", "2", "M", "5">>, <<"L", "2", "N", "2">>, <<"L", "2", "N", "3">>, <<"L", "2", "N", "5">>,
      <<"L", "2", "O", "2">>, <<"L", "2", "O", "3">>, <<"L", "2", "P", "2">>, <<"L", "beta", "1">>,
      <<"L", "beta", "1", "7">>, <<"L", "gamma", "1">>, <<"L", "gamma", "5">>, <<"L", "gamma", "6">>,
      <<"L", "gamma", "8">>, <<"L", "eta">>, <<"L", "nu">>, <<"L", "1", "M", "1">>,
      <<"L", "1", "N", "1">>, <<"L", "1", "N", "4">>, <<"L", "1", "O", "1">>, <<"L", "1", "O", "4">>,
      <<"L", "beta", "1", "0">>, <<"L", "beta", "3">>, <<"L", "beta", "4">>, <<"L", "beta", "9">>,
      <<"L", "gamma", "2">>, <<"L", "gamma", "1", "1">>, <<"L", "gamma", "3">>, <<"L", "gamma", "4">>,
      <<"L", "gamma", "4", "p">>, <<"M", "1", "N", "2">>, <<"M", "1", "N", "3">>, <<"M", "2", "M", "4">>,
      <<"M", "2", "N", "1">>, <<"M", "2", "N", "4">>, <<"M", "2", "O", "4">>, <<"M", "3", "M", "4">>,
      <<"M", "3", "M", "5">>, <<"M", "3", "N", "1">>, <<"M", "3", "N", "4">>, <<"M", "3", "O", "1">>,
      <<"M", "3", "O", "4">>, <<"M", "3", "O", "5">>, <<"M", "gamma">>, <<"M", "4", "N", "3">>,
      <<"M", "4", "O", "2">>, <<"M", "beta">>, <<"M", "zeta", "2">>, <<"M", "5", "O", "3">>,
      <<"M", "alpha", "1">>, <<"M", "alpha", "2">>, <<"M", "zeta", "1">>, <<"N", "4", "N", "6">>,
      <<"N", "5", "N", "6">>, <<"S", "K", "alpha", "prime">>, <<"S", "K", "alpha", "prime", "prime">>, <<"S", "K", "alpha", "3">>,
      <<"S", "K", "alpha", "4">>, <<"S", "K", "alpha", "5">>, <<"S", "K", "alpha", "6">>, <<"S", "K", "beta", "prime">>>>

\* list.index(x): the first position of x, counted from 0; -1 for ValueError
ListIndex(list, x) ==
    IF \E i \in 1..Len(list) : list[i] = x
    THEN (CHOOSE i \in 1..Len(list) : list[i] = x /\ \A j \in 1..(i - 1) : list[j] # x) - 1
    ELSE -1

\* x in str, for a character x
HasChar(str, x) == \E i \in 1..Len(str) : str[i] = x

\* str[:str.index(x)]
Before(str, x) ==
    SubSeq(str, 1, (CHOOSE i \in 1..Len(str) : str[i] = x /\ \A j \in 1..(i - 1) : str[j] # x) - 1)

\* str.startswith(prefix)
StartsWith(str, prefix) ==
    Len(prefix) <= Len(str) /\ SubSeq(str, 1, Len(prefix)) = prefix

RECURSIVE Split(_, _)
\* str.split(sep) for a one-character sep
Split(str, sep) ==
    IF ~HasChar(str, sep) THEN <<str>>
    ELSE LET head == Before(str, sep)
         IN <<head>> \o Split(SubSeq(str, Len(head) + 2, Len(str)), sep)

(***************************************************************************)
(* The collaborators of transition.py: subshell.Subshell,                  *)
(* element_properties and transition_data.                                 *)
(***************************************************************************)
\* IUPAC names of the subshells 1 (K) to 30 (outer)
_IUPACS ==
    <<<<"K">>, <<"L", "1">>, <<"L", "2">>, <<"L", "3">>, <<"M", "1">>,
      <<"M", "2">>, <<"M", "3">>, <<"M", "4">>, <<"M", "5">>, <<"N", "1">>,
      <<"N", "2">>, <<"N", "3">>, <<"N", "4">>, <<"N", "5">>, <<"N", "6">>,
      <<"N", "7">>, <<"O", "1">>, <<"O", "2">>, <<"O", "3">>, <<"O", "4">>,
      <<"O", "5">>, <<"O", "6">>, <<"O", "7">>, <<"P", "1">>, <<"P", "2">>,
      <<"P", "3">>, <<"P", "4">>, <<"P", "5">>, <<"Q", "1">>, <<"o", "u", "t", "e", "r">>>>

\* Siegbahn names of the subshells 1 (K) to 30 (outer)
_SHELL_SIEGBAHNS ==
    <<<<"K">>, <<"L", "I">>, <<"L", "I", "I">>, <<"L", "I", "I", "I">>, <<"M", "I">>,
      <<"M", "I", "I">>, <<"M", "I", "I", "I">>, <<"M", "I", "V">>, <<"M", "V">>, <<"N", "I">>,
      <<"N", "I", "I">>, <<"N", "I", "I", "I">>, <<"N", "I", "V">>, <<"N", "V">>, <<"N", "V", "I">>,
      <<"N", "V", "I", "I">>, <<"O", "I">>, <<"O", "I", "I">>, <<"O", "I", "I", "I">>, <<"O", "I", "V">>,
      <<"O", "V">>, <<"O", "V", "I">>, <<"O", "V", "I", "I">>, <<"P", "I">>, <<"P", "I", "I">>,
      <<"P", "I", "I", "I">>, <<"P", "I", "V">>, <<"P", "V">>, <<"Q", "I">>, <<"o", "u", "t", "e", "r">>>>

\* Subshell(z, iupac=name).index; 0 when no subshell has the name (ValueError)
SubshellFromIupac(name) == ListIndex(_IUPACS, name) + 1

\* Subshell(z, index).iupac
SubshellIupac(index) == _IUPACS[index]

\* Subshell(z, index).siegbahn
SubshellSiegbahn(index) == _SHELL_SIEGBAHNS[index]

\* ep.atomic_number(symbol=...); 0 when the symbol is unknown (ValueError)
ep_atomic_number(symbol) ==
    IF symbol = <<"F", "e">> THEN 26
    ELSE IF symbol = <<"C", "u">> THEN 29
    ELSE 0

\* largest transition energy of the data table
MaxEnergy == 2

Absent == [energy_eV |-> 0, probability |-> 0]

TableEntries ==
    {Absent} \cup {[energy_eV |-> e, probability |-> q] : e \in 1..MaxEnergy, q \in {1, 2}}

\* the line of the data table for (z, subshells); Absent when it has none.
\* The table holds lines for iron only; a (src, dest) pair names the diagram
\* line, satellite 0.
TdEntry(z, subshells) ==
    LET key == IF Len(subshells) = 3 THEN subshells
               ELSE <<subshells[1], subshells[2], 0>>
        i == ListIndex(_SUBSHELLS, key)
    IN IF z = ep_atomic_number(<<"F", "e">>) /\ i \in DOMAIN tdata THEN tdata[i] ELSE Absent

\* transition_data.exists(z, subshells)
transition_data_exists(z, subshells) == TdEntry(z, subshells) # Absent

\* transition_data.energy_eV(z, subshells): 0.0 if the transition does not exist
transition_data_energy_eV(z, subshells) == TdEntry(z, subshells).energy_eV

\* transition_data.probability(z, subshells)
transition_data_probability(z, subshells) == TdEntry(z, subshells).probability

(***************************************************************************)
(* class Transition                                                        *)
(***************************************************************************)
NoneArg == -1
NoSiegbahn == <<"None">>

NoT == [z |-> 0, index |-> -1, src |-> 0, dest |-> 0, satellite |-> 0,
        siegbahn |-> <<>>, iupac |-> <<>>, exists |-> FALSE, energy_eV |-> 0,
        probability |-> 0, wavelength_inf |-> FALSE]

Done(t) == [ok |-> TRUE, err |-> "none", msg |-> "none", t |-> t]
Fail(err, msg) == [ok |-> FALSE, err |-> err, msg |-> msg, t |-> NoT]

\* Lines 269-290: the fields set once the catalogue index is known.
TransitionFields(z, index, subshells, exists, energy, probability) ==
    [z |-> z, index |-> index, src |-> subshells[1], dest |-> subshells[2],
     satellite |-> subshells[3],
     siegbahn |-> _SIEGBAHNS[index + 1],
     iupac |-> SubshellIupac(subshells[2]) \o <<"-">> \o SubshellIupac(subshells[1]),
     exists |-> exists,
     energy_eV |-> energy,
     probability |-> probability,
     wavelength_inf |-> (energy = 0)]

\* the Transition object of catalogue entry index
TransitionAt(z, index) ==
    TransitionFields(z, index, _SUBSHELLS[index + 1],
                     transition_data_exists(z, _SUBSHELLS[index + 1]),
                     transition_data_energy_eV(z, _SUBSHELLS[index + 1]),
                     transition_data_probability(z, _SUBSHELLS[index + 1]))

\* Transition.__init__ looking up (src, dest, 0) whatever the satellite
Transition_init_IgnoringSatellite(z, src, dest, satellite, siegbahn) ==
    IF src # NoneArg /\ dest # NoneArg
    THEN IF src < dest
         THEN Fail("TypeError", "not all arguments converted during string formatting")
         ELSE LET index == ListIndex(_SUBSHELLS, <<src, dest, 0>>)
              IN IF index = -1 THEN Fail("ValueError", "Unknown transition")
                 ELSE Done(TransitionAt(z, index))
    ELSE IF siegbahn # NoSiegbahn
    THEN LET u == _siegbahn_ascii_to_unicode(siegbahn)
             cut == IF HasChar(u, "/") THEN Before(u, "/") ELSE u
             index == ListIndex(_SIEGBAHNS, cut)
         IN IF index = -1 THEN Fail("ValueError", "Unknown transition")
            ELSE Done(TransitionAt(z, index))
    ELSE Fail("ValueError", "Specify shells or Siegbahn")

\* Transition.__init__(z, src, dest, satellite, siegbahn)
Transition_init(z, src, dest, satellite, siegbahn) ==
    IF src # NoneArg /\ dest # NoneArg
    THEN IF src < dest
         \* the message of line 245 applies % to its second half alone, which
         \* holds one %s for two arguments
         THEN Fail("TypeError", "not all arguments converted during string formatting")
         ELSE LET index == ListIndex(_SUBSHELLS, <<src, dest, satellite>>)
              IN IF index = -1 THEN Fail("ValueError", "Unknown transition")
                 ELSE Done(TransitionAt(z, index))
    ELSE IF siegbahn # NoSiegbahn
    THEN LET u == _siegbahn_ascii_to_unicode(siegbahn)
             cut == IF HasChar(u, "/") THEN Before(u, "/") ELSE u
             index == ListIndex(_SIEGBAHNS, cut)
         IN IF index = -1 THEN Fail("ValueError", "Unknown transition")
            ELSE Done(TransitionAt(z, index))
    ELSE Fail("ValueError", "Specify shells or Siegbahn")

\* cmp() of two integers
IntCmp(x, y) == IF x < y THEN -1 ELSE IF x > y THEN 1 ELSE 0

\* Transition.__eq__
Transition_eq(a, b) == a.index = b.index /\ a.z = b.z

\* Transition.__ne__
Transition_ne(a, b) == a.index # b.index \/ a.z # b.z

\* Transition.__cmp__ without the factor -1 of line 304
Transition_cmp_ascending(a, b) ==
    LET c == IntCmp(a.z, b.z)
    IN IF c # 0 THEN c ELSE IntCmp(a.index, b.index)

\* Transition.__cmp__
Transition_cmp(a, b) ==
    LET c == IntCmp(a.z, b.z)
    IN IF c # 0 THEN c ELSE -1 * IntCmp(a.index, b.index)

\* Transition.__hash__: hash(('Transition', z, index)), as the hashed tuple
Transition_hash(a) == <<"Transition", a.z, a.index>>

\* a < b: __lt__ returns NotImplemented, so Python falls back on __cmp__
Transition_lt(a, b) == Transition_cmp(a, b) < 0

RECURSIVE Insert(_, _)
\* x put into the sorted list, after the elements that are not greater
Insert(list, x) ==
    IF list = <<>> THEN <<x>>
    ELSE IF Transition_lt(x, Head(list)) THEN <<x>> \o list
    ELSE <<Head(list)>> \o Insert(Tail(list), x)

RECURSIVE Sorted(_)
\* sorted(list) of Transition objects: a stable sort by <
Sorted(list) ==
    IF list = <<>> THEN <<>>
    ELSE Insert(Sorted(SubSeq(list, 1, Len(list) - 1)), list[Len(list)])

(***************************************************************************)
(* class transitionset, get_transitions and the group builders             *)
(***************************************************************************)
NoResult == [op |-> "none", ok |-> FALSE, err |-> "none", msg |-> "none",
             kind |-> "none", t |-> NoT, members |-> {}, z |-> 0,
             siegbahn |-> <<>>, iupac |-> <<>>, via |-> "none", list |-> <<>>,
             text |-> <<>>, most_probable |-> NoT, other |-> NoT, cmp |-> 0,
             rcmp |-> 0, eq |-> FALSE, ne |-> FALSE, lt |-> FALSE, gt |-> FALSE,
             input |-> <<>>]

Raised(err, msg) == [NoResult EXCEPT !.err = err, !.msg = msg]

OneTransition(r) ==
    IF r.ok THEN [NoResult EXCEPT !.ok = TRUE, !.kind = "Transition", !.t = r.t, !.z = r.t.z]
    ELSE Raised(r.err, r.msg)

\* transitionset.__init__(z, siegbahn, iupac, transitions), but for
\* _most_probable, which the caller draws from MostProbable
transitionset_init(z, siegbahn, iupac, transitions, via) ==
    IF transitions = {}
    THEN Raised("ValueError", "A transitionset must contain at least one transition")
    ELSE IF Cardinality({t.z : t \in transitions}) # 1
    THEN Raised("ValueError", "All transitions in a set must have the same atomic number")
    ELSE [NoResult EXCEPT !.ok = TRUE, !.kind = "transitionset", !.members = transitions,
                          !.z = z, !.siegbahn = siegbahn, !.iupac = iupac, !.via = via]

\* sorted(self)[0]: the first member in the Transition ordering
MostProbable_ByOrder(members) ==
    {m \in members : \A o \in members : Transition_cmp(m, o) <= 0}

\* sorted(self, key=attrgetter('probability'), reverse=True)[0]: the sort is
\* stable, so among the members of largest probability the first in the
\* iteration order of the frozenset is taken, which is any of them
MostProbable(members) ==
    {m \in members : \A o \in members : o.probability <= m.probability}

\* the catalogue entries _group visits, as indices
GroupCandidates(siegbahn) ==
    {i \in 0..(Len(_SIEGBAHNS) - 1) : StartsWith(_SIEGBAHNS[i + 1], siegbahn)}

\* _shell without the filter on exists()
ShellResult_KeepingAbsent(z, via, dest, made) ==
    LET transitions == {made[k].t : k \in {i \in DOMAIN made : made[i].ok}}
    IN IF \E i \in DOMAIN made : ~made[i].ok
       THEN [Raised((made[CHOOSE i \in DOMAIN made : ~made[i].ok]).err, "Unknown transition")
                EXCEPT !.via = via]
       ELSE IF transitions = {}
       THEN [Raised("ValueError", "No transition for") EXCEPT !.via = via]
       ELSE transitionset_init(z, SubshellSiegbahn(dest), SubshellIupac(dest), transitions, via)

\* _group without the filter on exists()
GroupResult_KeepingAbsent(z, via, siegbahn, iupac, made) ==
    LET transitions == {made[k].t : k \in {i \in DOMAIN made : made[i].ok /\ made[i].t.satellite = 0}}
    IN IF \E i \in DOMAIN made : ~made[i].ok
       THEN [Raised("ValueError", "Unknown transition") EXCEPT !.via = via]
       ELSE IF transitions = {}
       THEN [Raised("ValueError", "No transition for") EXCEPT !.via = via]
       ELSE transitionset_init(z, siegbahn, iupac, transitions, via)

\* Lines 525-532 of _group, made being the outcomes of the constructions
GroupResult(z, via, siegbahn, iupac, made) ==
    LET existing == {k \in DOMAIN made : made[k].ok /\ made[k].t.exists}
        transitions == {made[k].t : k \in {i \in existing : made[i].t.satellite = 0}}
    IN IF \E i \in DOMAIN made : ~made[i].ok
       THEN [Raised("ValueError", "Unknown transition") EXCEPT !.via = via]
       ELSE IF transitions = {}
       THEN [Raised("ValueError", "No transition for") EXCEPT !.via = via]
       ELSE transitionset_init(z, siegbahn, iupac, transitions, via)

\* _group(z, siegbahn, iupac, include_satellite=False)
_group(z, via, siegbahn, iupac) ==
    GroupResult(z, via, siegbahn, iupac,
                [i \in GroupCandidates(siegbahn) |->
                    Transition_init(z, NoneArg, NoneArg, 0, _SIEGBAHNS[i + 1])])

\* the catalogue entries _shell visits, as indices
ShellCandidates(dest) ==
    {i \in 0..(Len(_SUBSHELLS) - 1) :
        _SUBSHELLS[i + 1][2] = dest /\ _SUBSHELLS[i + 1][3] = 0}

\* Lines 546-550 of _shell, made being the outcomes of the constructions
ShellResult(z, via, dest, made) ==
    LET transitions == {made[k].t : k \in {i \in DOMAIN made : made[i].ok /\ made[i].t.exists}}
    IN IF \E i \in DOMAIN made : ~made[i].ok
       THEN [Raised((made[CHOOSE i \in DOMAIN made : ~made[i].ok]).err, "Unknown transition")
                EXCEPT !.via = via]
       ELSE IF transitions = {}
       THEN [Raised("ValueError", "No transition for") EXCEPT !.via = via]
       ELSE transitionset_init(z, SubshellSiegbahn(dest), SubshellIupac(dest), transitions, via)

\* _shell(z, dest, include_satellite=False)
_shell(z, via, dest) ==
    ShellResult(z, via, dest,
                [i \in ShellCandidates(dest) |->
                    Transition_init(z, _SUBSHELLS[i + 1][1], dest, 0, NoSiegbahn)])

(***************************************************************************)
(* The module-level builders K_family .. MV.  A builder is the function    *)
(* value the dispatch table stores: its name and the call it makes.        *)
(***************************************************************************)
GroupBuilder(fn, siegbahn, iupac) ==
    [fn |-> fn, shell |-> FALSE, siegbahn |-> siegbahn, iupac |-> iupac, dest |-> 0]

ShellBuilder(fn, dest) ==
    [fn |-> fn, shell |-> TRUE, siegbahn |-> <<>>, iupac |-> <<>>, dest |-> dest]

\* builder(z)
Call(builder, z) ==
    IF builder.shell THEN _shell(z, builder.fn, builder.dest)
    ELSE _group(z, builder.fn, builder.siegbahn, builder.iupac)

\* K_family: _group(z, u'K', 'K')
K_family == GroupBuilder("K_family", <<"K">>,
    <<"K">>)

\* L_family: _group(z, u'L', 'L')
L_family == GroupBuilder("L_family", <<"L">>,
    <<"L">>)

\* M_family: _group(z, u'M', 'M')
M_family == GroupBuilder("M_family", <<"M">>,
    <<"M">>)

\* N_family: _group(z, u'N', 'N')
N_family == GroupBuilder("N_family", <<"N">>,
    <<"N">>)

\* Ka: _group(z, u'K\\u03b1', 'K-L(2,3)')
Ka == GroupBuilder("Ka", <<"K", "alpha">>,
    <<"K", "-", "L", "(", "2", ",", "3", ")">>)

\* Kb: _group(z, u'K\\u03b2', 'K-M(2-5)N(2-5)')
Kb == GroupBuilder("Kb", <<"K", "beta">>,
    <<"K", "-", "M", "(", "2", "-", "5", ")", "N", "(", "2", "-", "5", ")">>)

\* La: _group(z, u'L\\u03b1', 'L3-M(4,5)')
La == GroupBuilder("La", <<"L", "alpha">>,
    <<"L", "3", "-", "M", "(", "4", ",", "5", ")">>)

\* Lb: _group(z, u'L\\u03b2', 'L(1-3)-M(2-5)N(1,4-7)O(1,4-5)')
Lb == GroupBuilder("Lb", <<"L", "beta">>,
    <<"L", "(", "1", "-", "3", ")", "-", "M", "(", "2", "-", "5", ")", "N", "(", "1", ",", "4", "-", "7", ")", "O", "(", "1", ",", "4", "-", "5", ")">>)

\* Lg: _group(z, u'L\\u03b3', 'L(1,2)-N(1-6)O(1-3)')
Lg == GroupBuilder("Lg", <<"L", "gamma">>,
    <<"L", "(", "1", ",", "2", ")", "-", "N", "(", "1", "-", "6", ")", "O", "(", "1", "-", "3", ")">>)

\* Ma: _group(z, u'M\\u03b1', 'M5-N(6,7)')
Ma == GroupBuilder("Ma", <<"M", "alpha">>,
    <<"M", "5", "-", "N", "(", "6", ",", "7", ")">>)

\* Mb: _group(z, u'M\\u03b2', 'M4-N6')
Mb == GroupBuilder("Mb", <<"M", "beta">>,
    <<"M", "4", "-", "N", "6">>)

\* Mg: _group(z, u'M\\u03b3', 'M3-N5')
Mg == GroupBuilder("Mg", <<"M", "gamma">>,
    <<"M", "3", "-", "N", "5">>)

\* LI: _shell(z, 2)
LI == ShellBuilder("LI", 2)

\* LII: _shell(z, 3)
LII == ShellBuilder("LII", 3)

\* LIII: _shell(z, 4)
LIII == ShellBuilder("LIII", 4)

\* MI: _shell(z, 5)
MI == ShellBuilder("MI", 5)

\* MII: _shell(z, 6)
MII == ShellBuilder("MII", 6)

\* MIII: _shell(z, 7)
MIII == ShellBuilder("MIII", 7)

\* MIV: _shell(z, 8)
MIV == ShellBuilder("MIV", 8)

\* MV: _shell(z, 9)
MV == ShellBuilder("MV", 9)

\* the dispatch table of from_string: notation -> function
_TRANSITIONSETS ==
    {[key |-> <<"K">>, fn |-> K_family],
     [key |-> <<"L">>, fn |-> L_family],
     [key |-> <<"M">>, fn |-> M_family],
     [key |-> <<"K", "alpha">>, fn |-> Ka],
     [key |-> <<"K", "beta">>, fn |-> Kb],
     [key |-> <<"L", "alpha">>, fn |-> La],
     [key |-> <<"L", "beta">>, fn |-> Lb],
     [key |-> <<"L", "gamma">>, fn |-> Lg],
     [key |-> <<"M", "alpha">>, fn |-> Ma],
     [key |-> <<"M", "beta">>, fn |-> Mb],
     [key |-> <<"M", "gamma">>, fn |-> Mg],
     [key |-> <<"L", "I">>, fn |-> LI],
     [key |-> <<"L", "I", "I">>, fn |-> LII],
     [key |-> <<"L", "I", "I", "I">>, fn |-> LIII],
     [key |-> <<"M", "I">>, fn |-> MI],
     [key |-> <<"M", "I", "I">>, fn |-> MII],
     [key |-> <<"M", "I", "I", "I">>, fn |-> MIII],
     [key |-> <<"M", "I", "V">>, fn |-> MIV],
     [key |-> <<"M", "V">>, fn |-> MV]}

\* the builders the module defines
Builders ==
    {K_family, L_family, M_family, N_family, Ka, Kb, La, Lb, Lg, Ma, Mb, Mg,
     LI, LII, LIII, MI, MII, MIII, MIV, MV}

\* whether the loop of get_transitions appends the entry at catalogue
\* position i (lines 466-474)
Appends(z, energylow_eV, energyhigh_eV, include_satellite, i) ==
    IF ~include_satellite /\ _SUBSHELLS[i][3] # 0 THEN FALSE
    ELSE IF ~transition_data_exists(z, <<_SUBSHELLS[i][1], _SUBSHELLS[i][2]>>) THEN FALSE
    ELSE IF transition_data_energy_eV(z, <<_SUBSHELLS[i][1], _SUBSHELLS[i][2]>>) < energylow_eV
            \/ transition_data_energy_eV(z, <<_SUBSHELLS[i][1], _SUBSHELLS[i][2]>>) > energyhigh_eV
    THEN FALSE
    ELSE TRUE

\* Line 476: Transition(z, src, dest, satellite) for each position kept
Appended(z, kept) ==
    [k \in 1..Len(kept) |->
        Transition_init(z, _SUBSHELLS[kept[k]][1], _SUBSHELLS[kept[k]][2],
                        _SUBSHELLS[kept[k]][3], NoSiegbahn).t]

\* The loop of get_transitions: the transitions appended, in catalogue order.
GetLoop(z, energylow_eV, energyhigh_eV, include_satellite) ==
    Appended(z, SelectSeq([i \in 1..Len(_SUBSHELLS) |-> i],
                          LAMBDA i : Appends(z, energylow_eV, energyhigh_eV, include_satellite, i)))

\* get_transitions(z, energylow_eV, energyhigh_eV, include_satellite)
get_transitions(z, energylow_eV, energyhigh_eV, include_satellite) ==
    Sorted(GetLoop(z, energylow_eV, energyhigh_eV, include_satellite))

\* from_string without the cut at '/'
Normalised_Uncut(word) ==
    _siegbahn_ascii_to_unicode(IF word = <<"L", "e">> THEN <<"L", "n">> ELSE word)

\* Lines 502-506 of from_string: the notation looked up
Normalised(word) ==
    LET cut == IF HasChar(word, "/") THEN Before(word, "/") ELSE word
    IN _siegbahn_ascii_to_unicode(IF cut = <<"L", "e">> THEN <<"L", "n">> ELSE cut)

\* Lines 511-512 of from_string with src, dest = notation.split('-')
FromIupac_SourceFirst(z, parts) ==
    IF Len(parts) # 2
    THEN Raised("ValueError", "too many values to unpack")
    ELSE IF SubshellFromIupac(parts[2]) = 0 \/ SubshellFromIupac(parts[1]) = 0
    THEN Raised("ValueError", "Unknown subshell")
    ELSE OneTransition(Transition_init(z, SubshellFromIupac(parts[1]),
                                       SubshellFromIupac(parts[2]), 0, NoSiegbahn))

\* Lines 511-512 of from_string: dest, src = notation.split('-')
FromIupac(z, parts) ==
    IF Len(parts) # 2
    THEN Raised("ValueError", "too many values to unpack")
    ELSE IF SubshellFromIupac(parts[2]) = 0 \/ SubshellFromIupac(parts[1]) = 0
    THEN Raised("ValueError", "Unknown subshell")
    ELSE OneTransition(Transition_init(z, SubshellFromIupac(parts[2]),
                                       SubshellFromIupac(parts[1]), 0, NoSiegbahn))

\* Lines 508-516 of from_string with the keywords looked up first
Classify_KeywordsFirst(s, z, notation) ==
    IF \E e \in _TRANSITIONSETS : e.key = notation
    THEN Call((CHOOSE e \in _TRANSITIONSETS : e.key = notation).fn, z)
    ELSE IF ListIndex(_SIEGBAHNS, notation) # -1
    THEN OneTransition(Transition_init(z, NoneArg, NoneArg, 0, notation))
    ELSE IF HasChar(notation, "-")
    THEN FromIupac(z, Split(notation, "-"))
    ELSE [Raised("ValueError", "Cannot parse transition string") EXCEPT !.text = s]

\* Lines 508-516 of from_string
Classify(s, z, notation) ==
    IF ListIndex(_SIEGBAHNS, notation) # -1
    THEN OneTransition(Transition_init(z, NoneArg, NoneArg, 0, notation))
    ELSE IF HasChar(notation, "-")
    THEN FromIupac(z, Split(notation, "-"))
    ELSE IF \E e \in _TRANSITIONSETS : e.key = notation
    THEN Call((CHOOSE e \in _TRANSITIONSETS : e.key = notation).fn, z)
    ELSE [Raised("ValueError", "Cannot parse transition string") EXCEPT !.text = s]

\* Lines 494-500 of from_string
FromWords(s, words) ==
    IF Len(words) # 2
    THEN Raised("ValueError", "The transition string must have 2 words")
    ELSE IF ep_atomic_number(words[1]) = 0
    THEN Raised("ValueError", "Unknown symbol")
    ELSE Classify(s, ep_atomic_number(words[1]), Normalised(words[2]))

\* from_string(s)
from_string(s) == FromWords(s, Split(s, " "))

(***************************************************************************)
(* subshell_data.py: CarlsonSubshellDatabase.  The data file is a sequence *)
(* of rows (z, subshell, energy_eV); the dictionary read from it maps z to *)
(* a dictionary from subshell index to energy.  A returned float is a      *)
(* record that tells infinity from a stored value.                         *)
(***************************************************************************)
\* largest number of rows of the data file
MaxFileRows == 2

\* _read with data[z][subshell] = energy_eV in place of setdefault
Carlson_read_overwriting(file) ==
    [z \in {file[i].z : i \in DOMAIN file} |->
        [s \in {file[i].subshell : i \in {k \in DOMAIN file : file[k].z = z}} |->
            file[Last({i \in DOMAIN file : file[i].z = z /\ file[i].subshell = s})].energy_eV]]

\* CarlsonSubshellDatabase._read: setdefault keeps the first energy of a
\* (z, subshell) pair
Carlson_read(file) ==
    [z \in {file[i].z : i \in DOMAIN file} |->
        [s \in {file[i].subshell : i \in {k \in DOMAIN file : file[k].z = z}} |->
            file[First({i \in DOMAIN file : file[i].z = z /\ file[i].subshell = s})].energy_eV]]

\* the outcome of a call; the subshell argument is an index, or an object
\* with an index attribute; by is the database object a call of
\* get_instance returned or a call of set_instance was given
NoShellQuery == [op |-> "none", z |-> 0, subshell |-> [index |-> 0, object |-> FALSE], ok |-> FALSE,
                 err |-> "none", inf |-> FALSE, value |-> 0, exists |-> FALSE,
                 by |-> [cls |-> "none", id |-> 0]]

\* CarlsonSubshellDatabase.energy_eV(z, subshell)
Carlson_energy_eV(data, z, subshell) ==
    IF z \notin DOMAIN data
    THEN [NoShellQuery EXCEPT !.err = "ValueError"]
    ELSE IF subshell.index \in DOMAIN data[z]
    THEN [NoShellQuery EXCEPT !.ok = TRUE, !.value = data[z][subshell.index]]
    ELSE [NoShellQuery EXCEPT !.ok = TRUE, !.inf = TRUE]

\* CarlsonSubshellDatabase.exists(z, subshell): a KeyError of data[z] or of
\* data[z][subshell] is caught
Carlson_exists(data, z, subshell) ==
    [NoShellQuery EXCEPT !.ok = TRUE,
                         !.exists = (z \in DOMAIN data /\ subshell.index \in DOMAIN data[z])]

\* KrauseOlivierSubshellDatabase.width_eV(z, subshell): the table is read by
\* the same _read; 0.0 when the atomic number has no width for the subshell
Krause_width_eV(data, z, subshell) ==
    IF z \notin DOMAIN data
    THEN [NoShellQuery EXCEPT !.err = "ValueError"]
    ELSE IF subshell.index \in DOMAIN data[z]
    THEN [NoShellQuery EXCEPT !.ok = TRUE, !.value = data[z][subshell.index]]
    ELSE [NoShellQuery EXCEPT !.ok = TRUE, !.value = 0]

\* set_instance(inst) without the global statement: the assignment binds a
\* local name
SetInstance_Local(inst) ==
    /\ slast = NoShellQuery
    /\ tlast = NoResult
    /\ slast' = [NoShellQuery EXCEPT !.op = "set_instance", !.ok = TRUE, !.by = inst]
    /\ UNCHANGED <<carlson_file, carlson_data, krause_data, instance, descVars, sqlVars, transVars>>

\* set_instance(inst): the global instance becomes inst
SetInstance(inst) ==
    /\ slast = NoShellQuery
    /\ tlast = NoResult
    /\ instance' = inst
    /\ slast' = [NoShellQuery EXCEPT !.op = "set_instance", !.ok = TRUE, !.by = inst]
    /\ UNCHANGED <<carlson_file, carlson_data, krause_data, descVars, sqlVars, transVars>>

\* get_instance(): returns the global instance
GetInstance ==
    /\ slast = NoShellQuery
    /\ tlast = NoResult
    /\ slast' = [NoShellQuery EXCEPT !.op = "get_instance", !.ok = TRUE, !.by = instance]
    /\ UNCHANGED <<carlson_file, carlson_data, krause_data, instance, descVars, sqlVars, transVars>>

\* energy_eV(z, subshell) of the module, delegated to the instance: a
\* SuperDatabase asks its Carlson database, a Krause-Olivier database raises
EnergyQuery(z, subshell) ==
    /\ slast = NoShellQuery
    /\ tlast = NoResult
    /\ slast' = [(IF instance.cls = "KrauseOlivierSubshellDatabase"
                  THEN [NoShellQuery EXCEPT !.err = "ValueError"]
                  ELSE Carlson_energy_eV(carlson_data, z, subshell))
                    EXCEPT !.op = "energy_eV", !.z = z, !.subshell = subshell]
    /\ UNCHANGED <<carlson_file, carlson_data, krause_data, instance, descVars, sqlVars, transVars>>

\* exists(z, subshell) of the module, delegated to the instance
ExistsQuery(z, subshell) ==
    /\ slast = NoShellQuery
    /\ tlast = NoResult
    /\ slast' = [(IF instance.cls = "KrauseOlivierSubshellDatabase"
                  THEN [NoShellQuery EXCEPT !.ok = TRUE, !.exists = FALSE]
                  ELSE Carlson_exists(carlson_data, z, subshell))
                    EXCEPT !.op = "exists", !.z = z, !.subshell = subshell]
    /\ UNCHANGED <<carlson_file, carlson_data, krause_data, instance, descVars, sqlVars, transVars>>

\* width_eV(z, subshell) of the module, delegated to the instance: a
\* SuperDatabase asks its Krause-Olivier database, a Carlson database
\* returns 0.0
WidthQuery(z, subshell) ==
    /\ slast = NoShellQuery
    /\ tlast = NoResult
    /\ slast' = [(IF instance.cls = "CarlsonSubshellDatabase"
                  THEN [NoShellQuery EXCEPT !.ok = TRUE, !.value = 0]
                  ELSE Krause_width_eV(krause_data, z, subshell))
                    EXCEPT !.op = "width_eV", !.z = z, !.subshell = subshell]
    /\ UNCHANGED <<carlson_file, carlson_data, krause_data, instance, descVars, sqlVars, transVars>>

\* the caller takes the outcome of the call
TakeShellResult ==
    /\ slast # NoShellQuery
    /\ slast' = NoShellQuery
    /\ UNCHANGED <<carlson_file, carlson_data, krause_data, instance, descVars, sqlVars, transVars>>

\* the databases of empty files, not queried; instance = SuperDatabase()
IdleSubshell ==
    /\ carlson_file = <<>>
    /\ carlson_data = Carlson_read(carlson_file)
    /\ krause_data = Carlson_read(<<>>)
    /\ instance = [cls |-> "SuperDatabase", id |-> 0]
    /\ slast = NoShellQuery

(***************************************************************************)
(* The transition machine: a data table fixed at import, and calls made    *)
(* one at a time; tlast holds the outcome of the call until the caller     *)
(* has taken it.                                                           *)
(***************************************************************************)
Symbols == {<<"F", "e">>, <<"C", "u">>}
CallZ == {ep_atomic_number(sym) : sym \in Symbols}

Returns(r, op, input) ==
    /\ tlast = NoResult
    /\ IF r.kind = "transitionset"
       THEN \E m \in MostProbable(r.members) :
               tlast' = [r EXCEPT !.most_probable = m, !.op = op, !.input = input]
       ELSE tlast' = [r EXCEPT !.op = op, !.input = input]
    /\ UNCHANGED <<tdata, descVars, sqlVars, shellVars>>

\* the caller takes the outcome of the call
TakeResult ==
    /\ tlast # NoResult
    /\ tlast' = NoResult
    /\ UNCHANGED <<tdata, descVars, sqlVars, shellVars>>

\* Transition(z, src, dest, satellite)
NewTransition(z, src, dest, satellite) ==
    Returns(OneTransition(Transition_init(z, src, dest, satellite, NoSiegbahn)),
            "Transition", <<z, src, dest, satellite>>)

\* Transition(z, siegbahn=siegbahn)
NewTransitionBySiegbahn(z, siegbahn) ==
    Returns(OneTransition(Transition_init(z, NoneArg, NoneArg, 0, siegbahn)),
            "Transition_siegbahn", <<z, siegbahn>>)

\* a == b, a != b, cmp(a, b), cmp(b, a), a < b and a > b of two transitions
Compare(a, b) ==
    Returns([NoResult EXCEPT !.ok = TRUE, !.kind = "compare", !.t = a, !.other = b,
                             !.cmp = Transition_cmp(a, b), !.rcmp = Transition_cmp(b, a),
                             !.eq = Transition_eq(a, b), !.ne = Transition_ne(a, b),
                             !.lt = Transition_lt(a, b), !.gt = Transition_lt(b, a)],
            "compare", <<>>)

\* get_transitions(z, energylow_eV, energyhigh_eV, include_satellite)
GetTransitions(z, lo, hi, include_satellite) ==
    Returns([NoResult EXCEPT !.ok = TRUE, !.kind = "list", !.z = z,
                             !.list = get_transitions(z, lo, hi, include_satellite)],
            "get_transitions", <<z, lo, hi, IF include_satellite THEN 1 ELSE 0>>)

\* K_family(z), ..., MV(z), called directly
CallBuilder(builder, z) == Returns(Call(builder, z), builder.fn, <<z>>)

\* from_string(s)
FromString(s) == Returns(from_string(s), "from_string", s)

\* catalogue entries the data table may hold a line for
QueryKeys == {0, 1, 77}

\* the transitions compared
Compared == {TransitionAt(z, i) : z \in CallZ, i \in {0, 1, 77}}

Init ==
    /\ tdata \in [QueryKeys -> TableEntries]
    /\ tlast = NoResult
    /\ InitDescriptor
    /\ InitSql
    /\ IdleSubshell

Next ==
    \/ \E z \in CallZ : \E src \in {NoneArg, 1, 4} : \E dest \in {NoneArg, 1, 4} :
          \E satellite \in {0, 1} : NewTransition(z, src, dest, satellite)
    \/ tlast = NoResult /\ \E z \in CallZ : \E i \in 1..Len(_SUBSHELLS) :
          NewTransition(z, _SUBSHELLS[i][1], _SUBSHELLS[i][2], _SUBSHELLS[i][3])
    \/ tlast = NoResult /\ \E z \in CallZ :
          \E siegbahn \in {_SIEGBAHNS[i] : i \in 1..Len(_SIEGBAHNS)}
                             \cup {<<"K", "a", "1">>, <<"K", "a", "9">>} :
             NewTransitionBySiegbahn(z, siegbahn)
    \/ \E a \in Compared : \E b \in Compared : Compare(a, b)
    \/ \E z \in CallZ : \E lo \in 0..(MaxEnergy + 1) : \E hi \in 0..(MaxEnergy + 1) :
          \E include_satellite \in BOOLEAN : GetTransitions(z, lo, hi, include_satellite)
    \/ \E builder \in Builders : \E z \in CallZ : CallBuilder(builder, z)
    \/ TakeResult

Spec == Init /\ [][Next]_vars

(***************************************************************************)
(* The parser on its own: from_string over the strings of ParseInputs.     *)
(***************************************************************************)
\* the family, group and shell keywords as written in ASCII, each with the
\* name of the function that builds it
DocumentedKeywords ==
    {[word |-> <<"K">>, fn |-> "K_family"],
     [word |-> <<"L">>, fn |-> "L_family"],
     [word |-> <<"M">>, fn |-> "M_family"],
     [word |-> <<"N">>, fn |-> "N_family"],
     [word |-> <<"K", "a">>, fn |-> "Ka"],
     [word |-> <<"K", "b">>, fn |-> "Kb"],
     [word |-> <<"L", "a">>, fn |-> "La"],
     [word |-> <<"L", "b">>, fn |-> "Lb"],
     [word |-> <<"L", "g">>, fn |-> "Lg"],
     [word |-> <<"M", "a">>, fn |-> "Ma"],
     [word |-> <<"M", "b">>, fn |-> "Mb"],
     [word |-> <<"M", "g">>, fn |-> "Mg"],
     [word |-> <<"L", "I">>, fn |-> "LI"],
     [word |-> <<"L", "I", "I">>, fn |-> "LII"],
     [word |-> <<"L", "I", "I", "I">>, fn |-> "LIII"],
     [word |-> <<"M", "I">>, fn |-> "MI"],
     [word |-> <<"M", "I", "I">>, fn |-> "MII"],
     [word |-> <<"M", "I", "I", "I">>, fn |-> "MIII"],
     [word |-> <<"M", "I", "V">>, fn |-> "MIV"],
     [word |-> <<"M", "V">>, fn |-> "MV"]}

Keywords == {e.word : e \in DocumentedKeywords}

\* IUPAC notations, old-style notations and tokens of no notation
OtherTokens ==
    {<<"K", "-", "L", "3">>, <<"L", "3", "-", "K">>, <<"K", "-", "L", "3", "-", "M", "1">>,
     <<"K", "-", "X">>, <<"K", "-">>, <<"K", "-", "K">>, <<"L", "3", "-", "M", "5">>,
     <<"L", "e">>, <<"L", "e", "/", "x">>, <<"K", "a", "1", "/", "x">>,
     <<"K", "/", "L">>, <<"X", "x">>, <<"K", "a", "9">>, <<"k", "a", "1">>, <<>>}

\* the catalogue Siegbahn symbols, as written in ASCII and in Unicode, the
\* keywords and the other tokens
Tokens ==
    {_SIEGBAHNS[i] : i \in 1..Len(_SIEGBAHNS)}
        \cup {_siegbahn_unicode_to_ascii(_SIEGBAHNS[i]) : i \in 1..Len(_SIEGBAHNS)}
        \cup Keywords \cup OtherTokens

\* the strings tried: the tokens, the IUPAC notation of every catalogue
\* entry written destination first and source first, tokens followed by a
\* '/' suffix, and strings that are not two words
ParseInputs ==
    LET iupacs == {SubshellIupac(_SUBSHELLS[i][2]) \o <<"-">> \o SubshellIupac(_SUBSHELLS[i][1]) :
                      i \in 1..Len(_SUBSHELLS)}
        reversed == {SubshellIupac(_SUBSHELLS[i][1]) \o <<"-">> \o SubshellIupac(_SUBSHELLS[i][2]) :
                        i \in 1..Len(_SUBSHELLS)}
        suffixed == {tok \o x : tok \in Keywords \cup OtherTokens
                                    \cup {_siegbahn_unicode_to_ascii(_SIEGBAHNS[i]) :
                                              i \in 1..Len(_SIEGBAHNS)},
                                x \in {<<"/">>, <<"/", "x">>}}
    IN {sym \o <<" ">> \o tok : sym \in Symbols \cup {<<"X", "x">>},
                                 tok \in Tokens \cup iupacs \cup reversed \cup suffixed}
          \cup {<<"F", "e">>, <<"F", "e", " ", "K", "a", "1", " ", "x">>,
                <<"F", "e", " ", " ", "K", "a", "1">>, <<>>}

NextParse ==
    \/ \E s \in ParseInputs : FromString(s)
    \/ TakeResult

\* the data table may hold a line for K alpha 1 and M beta
ParserAlone ==
    /\ tdata \in [{0, 69} -> TableEntries]
    /\ tlast = NoResult
    /\ InitDescriptor
    /\ InitSql
    /\ IdleSubshell

SpecParse == ParserAlone /\ [][NextParse]_vars

(***************************************************************************)
(* The descriptor machine and the property-store machine, each on its own. *)
(***************************************************************************)
IdleTransition ==
    /\ tdata = [k \in QueryKeys |-> Absent]
    /\ tlast = NoResult

DescriptorsAlone == InitDescriptor /\ InitSql /\ IdleTransition /\ IdleSubshell

SpecDescriptor == DescriptorsAlone /\ [][NextDescriptor]_vars

StoreAlone == InitSql /\ InitDescriptor /\ IdleTransition /\ IdleSubshell

SpecSql == StoreAlone /\ [][NextSql]_vars

(***************************************************************************)
(* transitionset objects built directly and compared, and the builders,    *)
(* on their own.                                                           *)
(***************************************************************************)
\* transitionset.__cmp__(self, other): the sorted indexes of the two sets
\* are paired by izip_longest, the shorter padded with fillvalue
transitionset_cmp(self, other) ==
    LET fillvalue == 79
        Indexes(members) ==
            LET I == {m.index : m \in members}
            IN [k \in 1..Cardinality(I) |->
                   CHOOSE i \in I : Cardinality({j \in I : j < i}) = k - 1]
        indexes == Indexes(self.members)
        other_indexes == Indexes(other.members)
        At(seq, k) == IF k <= Len(seq) THEN seq[k] ELSE fillvalue
        n == IF Len(indexes) < Len(other_indexes) THEN Len(other_indexes) ELSE Len(indexes)
        differing == {k \in 1..n : At(indexes, k) # At(other_indexes, k)}
    IN IF IntCmp(self.z, other.z) # 0 THEN IntCmp(self.z, other.z)
       ELSE IF differing = {} THEN 0
       ELSE -1 * IntCmp(At(indexes, First(differing)), At(other_indexes, First(differing)))

\* transitionset(z, siegbahn, iupac, transitions)
NewSet(z, transitions) ==
    Returns(transitionset_init(z, <<"K">>, <<"K">>, transitions, "transitionset"),
            "transitionset", <<z>>)

\* cmp(a, b) and cmp(b, a) of two transitionsets
CompareSets(a, b) ==
    Returns([NoResult EXCEPT !.ok = TRUE, !.kind = "setcompare",
                             !.cmp = transitionset_cmp(a, b),
                             !.rcmp = transitionset_cmp(b, a),
                             !.eq = (a.members = b.members)],
            "setcompare", <<a, b>>)

\* one call at a time: no call is made before the outcome of the last is
\* taken; a set is built of any of K alpha 1 and K alpha 2 of two elements,
\* and the sets compared are those of K alpha 1 and two of its satellites
NextSets ==
    LET SetsCompared ==
            {transitionset_init(z, <<"K">>, <<"K">>, {TransitionAt(z, i) : i \in I},
                                "transitionset") :
                z \in CallZ, I \in (SUBSET {0, 79, 80}) \ {{}}}
    IN
    \/ tlast = NoResult /\ \E z \in CallZ :
          \E transitions \in SUBSET {TransitionAt(zt, i) : zt \in CallZ, i \in {0, 1}} :
             NewSet(z, transitions)
    \/ tlast = NoResult /\ \E a \in SetsCompared : \E b \in SetsCompared : CompareSets(a, b)
    \/ tlast = NoResult /\ \E builder \in Builders : \E z \in CallZ : CallBuilder(builder, z)
    \/ TakeResult

\* the data table may hold a line for K alpha 1, K alpha 2 and L alpha 1,
\* and one line of energy and probability 1 for L beta 1 and for M beta
SetsAlone ==
    /\ tdata \in {f \in [{0, 1, 12, 31, 69} -> TableEntries] :
                    \A i \in {31, 69} :
                        f[i] \in {Absent, [energy_eV |-> 1, probability |-> 1]}}
    /\ tlast = NoResult
    /\ InitDescriptor
    /\ InitSql
    /\ IdleSubshell

SpecSets == SetsAlone /\ [][NextSets]_vars

(***************************************************************************)
(* The subshell database on its own, and beside it the construction of a   *)
(* Transition the data table has no line for.                              *)
(***************************************************************************)
NextSubshell ==
    \/ \E z \in CallZ \cup {0} : \E i \in 1..3 : \E o \in BOOLEAN :
          EnergyQuery(z, [index |-> i, object |-> o])
    \/ \E z \in CallZ \cup {0} : \E i \in 1..3 : \E o \in BOOLEAN :
          ExistsQuery(z, [index |-> i, object |-> o])
    \/ TakeShellResult
    \/ \E z \in CallZ : \E satellite \in {0, 1} :
          slast = NoShellQuery /\ NewTransition(z, 4, 1, satellite)
    \/ TakeResult

\* instance = SuperDatabase(): the file is read at import
SubshellsAlone ==
    /\ carlson_file \in UNION {[1..n -> {[z |-> z, subshell |-> s, energy_eV |-> e] :
                                            z \in CallZ, s \in 1..2, e \in 1..MaxEnergy}] :
                                    n \in 0..MaxFileRows}
    /\ carlson_data = Carlson_read(carlson_file)
    /\ krause_data = Carlson_read(<<>>)
    /\ instance = [cls |-> "SuperDatabase", id |-> 0]
    /\ slast = NoShellQuery
    /\ InitDescriptor
    /\ InitSql
    /\ IdleTransition

SpecSubshell == SubshellsAlone /\ [][NextSubshell]_vars

(***************************************************************************)
(* The module-level functions of subshell_data on their own: the instance  *)
(* is swapped between the initial SuperDatabase and one more database of   *)
(* each class, and queried.                                                *)
(***************************************************************************)
NextInstance ==
    \/ slast = NoShellQuery /\ \E cls \in {"SuperDatabase", "CarlsonSubshellDatabase",
                                             "KrauseOlivierSubshellDatabase"} :
          \E id \in {0, 1} : (cls = "SuperDatabase" \/ id = 1)
                                /\ SetInstance([cls |-> cls, id |-> id])
    \/ GetInstance
    \/ slast = NoShellQuery /\ \E z \in CallZ \cup {0} : \E i \in 1..2 : \E o \in BOOLEAN :
          EnergyQuery(z, [index |-> i, object |-> o])
    \/ slast = NoShellQuery /\ \E z \in CallZ \cup {0} : \E i \in 1..2 : \E o \in BOOLEAN :
          ExistsQuery(z, [index |-> i, object |-> o])
    \/ slast = NoShellQuery /\ \E z \in CallZ \cup {0} : \E i \in 1..2 : \E o \in BOOLEAN :
          WidthQuery(z, [index |-> i, object |-> o])
    \/ TakeShellResult

\* the Carlson and the Krause-Olivier files hold at most one row each, of
\* iron; a width is larger than every energy, so that its table is told
\* from the other
InstancesAlone ==
    /\ carlson_file \in UNION {[1..n -> {[z |-> 26, subshell |-> 1, energy_eV |-> e] :
                                            e \in 1..MaxEnergy}] : n \in 0..1}
    /\ carlson_data = Carlson_read(carlson_file)
    /\ krause_data \in {Carlson_read(file) :
                            file \in UNION {[1..n -> {[z |-> 26, subshell |-> s,
                                                       energy_eV |-> MaxEnergy + 1] :
                                                          s \in 1..2}] : n \in 0..1}}
    /\ instance = [cls |-> "SuperDatabase", id |-> 0]
    /\ slast = NoShellQuery
    /\ InitDescriptor
    /\ InitSql
    /\ IdleTransition

SpecInstance == InstancesAlone /\ [][NextInstance]_vars

(***************************************************************************)
(* Properties of the descriptors (SpecDescriptor).                         *)
(***************************************************************************)
\* Whether two argument tuples of cls name the same descriptor: the shell
\* given as n or as AtomicShell(n), a code or a name in any case, the same
\* transitions in any order.
SameNormal(cls, a, b) ==
    CASE cls = "AtomicSubshell" ->
            a[1].attrs[1] = b[1].attrs[1] /\ a[2] = b[2] /\ a[3] = b[3]
      [] cls \in {"Language", "Notation"} -> StrLower(a[1]) = StrLower(b[1])
      [] cls = "TransitionSet" ->
            {a[1][i] : i \in 1..Len(a[1])} = {b[1][i] : i \in 1..Len(b[1])}
      [] OTHER -> a = b

\* C1: for every n >= 1 and all l and j_n, AtomicSubshell(n, l, j_n)
\* succeeds if and only if 0 <= l <= n-1 and j_n is one of the two values
\* 2|l-0.5| and 2|l+0.5|; every other (l, j_n) is rejected.
C1_SubshellAcceptsOnlyTheTwoValues ==
    (dlast.cls = "AtomicSubshell" /\ dlast.args[1].attrs[1] >= 1) =>
        (dlast.ok <=>
            /\ 0 <= dlast.args[2]
            /\ dlast.args[2] <= dlast.args[1].attrs[1] - 1
            /\ dlast.args[3] \in {Abs(2 * dlast.args[2] - 1), Abs(2 * dlast.args[2] + 1)})

\* C5 (as amended): a successful construction returns an instance that is
\* equal to, and hashes as, every instance made from the same arguments or
\* from arguments that normalise to the same tuple; a failed construction
\* interns no instance of the class it was asked for, and nothing at all
\* but the AtomicShell(n) that AtomicSubshell.validate built from an int n.
C5_ConstructionIdempotent ==
    /\ (dlast.cls # "none" /\ dlast.ok) =>
          /\ dlast.obj \in cache[dlast.cls]
          /\ \A e \in cache[dlast.cls] :
                SameNormal(dlast.cls, e.args, dlast.args) =>
                    DescEq(e, dlast.obj) /\ DescHash(e) = DescHash(dlast.obj)
    /\ (dlast.cls # "none" /\ ~dlast.ok) =>
          \A k \in Classes : \A e \in cache[k] \ cacheBefore[k] :
              /\ k = "AtomicShell"
              /\ dlast.cls = "AtomicSubshell"
              /\ dlast.args[1] = PyInt(e.attrs[1])

\* C5 witness: AtomicSubshell(n, l, j_n) with an int n returns the instance
\* that AtomicSubshell(AtomicShell(n), l, j_n) created.
C5_Witness ==
    /\ dlast.cls = "AtomicSubshell" /\ dlast.ok
    /\ dlast.args[1].cls = "int"
    /\ dlast.obj \in cacheBefore["AtomicSubshell"]
    /\ dlast.obj.args[1].cls = "AtomicShell"
    /\ cache = cacheBefore

\* C5 (as stated): idempotent construction, and a construction that fails
\* validation adds nothing to the cache.
C5_FailedConstructionAddsNothing ==
    /\ (dlast.cls # "none" /\ dlast.ok) =>
          \A e \in cache[dlast.cls] :
              SameNormal(dlast.cls, e.args, dlast.args) =>
                  DescEq(e, dlast.obj) /\ DescHash(e) = DescHash(dlast.obj)
    /\ (dlast.cls # "none" /\ ~dlast.ok) => cache = cacheBefore

(***************************************************************************)
(* Properties of the property store (SpecSql).  While a query's outcome    *)
(* waits in qlast no row is added and no priority assigned, so rows and    *)
(* reference_priority are those the query ran on.                          *)
(***************************************************************************)
\* the rows of the subject of query q: by atomic number, or by symbol
SubjectRows(q) ==
    {i \in 1..Len(rows) :
        IF q.kind = "atomic_number"
        THEN StrLower(rows[i].symbol) = StrLower(q.subject)
        ELSE rows[i].z = q.subject[1]}

\* the value query q reads from row i
ValueIn(q, i) ==
    CASE q.kind = "atomic_number" -> <<rows[i].z>>
      [] q.kind = "symbol" -> rows[i].symbol
      [] OTHER -> <<rows[i].value>>

\* positions of the priority list whose reference has a row for q's subject
PrioritisedFor(q) ==
    {k \in 1..Len(reference_priority) :
        \E i \in SubjectRows(q) : rows[i].reference = reference_priority[k]}

\* C2: with no reference passed and a priority list of which some reference
\* has a row for the subject, the lookup returns the value of the row of the
\* first such reference in priority order; with a reference passed it
\* returns that reference's row whatever the priority list is; the value
\* returned is always that of one stored row of the subject.
C2_PriorityOrderDecides ==
    qlast # NoQuery =>
        /\ (qlast.reference = NoRef /\ PrioritisedFor(qlast) # {}) =>
              /\ qlast.ok
              /\ \E k \in PrioritisedFor(qlast) :
                    /\ \A j \in PrioritisedFor(qlast) : k <= j
                    /\ rows[qlast.row].reference = reference_priority[k]
        /\ (qlast.reference # NoRef
              /\ \E i \in SubjectRows(qlast) : rows[i].reference = qlast.reference) =>
              qlast.ok /\ rows[qlast.row].reference = qlast.reference
        /\ qlast.ok =>
              /\ qlast.row \in SubjectRows(qlast)
              /\ qlast.value = ValueIn(qlast, qlast.row)

\* C2 witness: the priority list decided, against insertion order, and a
\* later reference of the list was passed over for an earlier one.
C2_Witness ==
    /\ qlast.ok /\ qlast.reference = NoRef
    /\ Len(reference_priority) = 2
    /\ reference_priority[1] # reference_priority[2]
    /\ \A k \in 1..2 : k \in PrioritisedFor(qlast)
    /\ \E i \in SubjectRows(qlast) : i < qlast.row
    /\ rows[qlast.row].reference = reference_priority[1]

\* C3: a lookup that names a reference fails with an error whenever that
\* reference has no row for the subject, whatever other rows the subject
\* has; when it succeeds the value is that reference's; and the lookup leaves
\* the store and the priority list as they were.
C3_ExplicitReferenceNeverFallsThrough ==
    [][(qlast = NoQuery /\ qlast' # NoQuery /\ qlast'.reference # NoRef) =>
          /\ rows' = rows
          /\ reference_priority' = reference_priority
          /\ (~\E i \in SubjectRows(qlast') : rows[i].reference = qlast'.reference) =>
                (~qlast'.ok /\ qlast'.err = "ValueError" /\ qlast'.value = <<>>)
          /\ qlast'.ok =>
                /\ rows[qlast'.row].reference = qlast'.reference
                /\ qlast'.value = ValueIn(qlast', qlast'.row)]_vars

\* C3 witness: the lookup named a reference that has no row for the subject,
\* failed, and the subject has a row of a reference the priority list names.
C3_Witness ==
    /\ qlast # NoQuery /\ ~qlast.ok
    /\ qlast.reference # NoRef
    /\ SubjectRows(qlast) # {}
    /\ PrioritisedFor(qlast) # {}

\* C4: with no reference passed and no reference of the priority list (an
\* empty list included) having a row for the subject, the lookup succeeds
\* whenever the subject has a row and returns the first-inserted one.
C4_FallbackIsFirstInserted ==
    (qlast # NoQuery /\ qlast.reference = NoRef
        /\ PrioritisedFor(qlast) = {} /\ SubjectRows(qlast) # {}) =>
        /\ qlast.ok
        /\ qlast.row \in SubjectRows(qlast)
        /\ \A i \in SubjectRows(qlast) : qlast.row <= i
        /\ qlast.value = ValueIn(qlast, qlast.row)

\* C4 witness: a non-empty priority list none of whose references has a row
\* for a subject that has two rows; the first-inserted row was returned.
C4_Witness ==
    /\ qlast.ok /\ qlast.reference = NoRef
    /\ reference_priority # <<>>
    /\ PrioritisedFor(qlast) = {}
    /\ Cardinality(SubjectRows(qlast)) = 2
    /\ \A i \in SubjectRows(qlast) : qlast.row <= i

(***************************************************************************)
(* Properties of the parser (SpecParse).                                   *)
(***************************************************************************)
\* the string "<Symbol> <token>"
Text(sym, tok) == sym \o <<" ">> \o tok

\* C6: for every catalogue Siegbahn string s and every element, from_string
\* of "<Symbol> " + ascii(s), and of "<Symbol> " + s, yields a single
\* Transition whose siegbahn is s and whose index is the index of s; and
\* _siegbahn_ascii_to_unicode(_siegbahn_unicode_to_ascii(s)) = s.
C6_SiegbahnRoundTrip ==
    /\ \A i \in 1..Len(_SIEGBAHNS) :
          _siegbahn_ascii_to_unicode(_siegbahn_unicode_to_ascii(_SIEGBAHNS[i])) = _SIEGBAHNS[i]
    /\ tlast.op = "from_string" =>
          \A sym \in Symbols : \A i \in 1..Len(_SIEGBAHNS) :
              tlast.input \in {Text(sym, _SIEGBAHNS[i]),
                               Text(sym, _siegbahn_unicode_to_ascii(_SIEGBAHNS[i]))} =>
                  /\ tlast.ok /\ tlast.kind = "Transition"
                  /\ tlast.t.siegbahn = _SIEGBAHNS[i]
                  /\ tlast.t.index = i - 1
                  /\ tlast.t.z = ep_atomic_number(sym)

\* C6 witness: a satellite written in ASCII, primes included, parsed to the
\* Transition of its catalogue entry.
C6_Witness ==
    /\ tlast.op = "from_string" /\ tlast.ok /\ tlast.kind = "Transition"
    /\ tlast.input = <<"F", "e", " ", "S", "K", "a", "'", "'">>
    /\ tlast.t.siegbahn = <<"S", "K", "alpha", "prime", "prime">>
    /\ tlast.t.satellite = 2

\* C7: from_string classifies the normalised second token in a fixed order:
\* a catalogue Siegbahn symbol gives a single Transition; otherwise a token
\* with '-' is read as IUPAC; otherwise a keyword of the dispatch table
\* gives what its builder gives; otherwise a ValueError carrying the
\* original string.  Mb and Mg give a single Transition, and a string that
\* is not two space-separated words is rejected before any of this.
C7_ClassificationPrecedence ==
    tlast.op = "from_string" =>
        /\ \A sym \in Symbols : \A tok \in Tokens :
              tlast.input = Text(sym, tok) =>
                  IF Normalised(tok) \in {_SIEGBAHNS[i] : i \in 1..Len(_SIEGBAHNS)}
                  THEN /\ tlast.ok /\ tlast.kind = "Transition"
                       /\ tlast.t.siegbahn = Normalised(tok)
                       /\ tlast.via = "none"
                  ELSE IF HasChar(Normalised(tok), "-")
                  THEN /\ tlast.via = "none"
                       /\ tlast.kind \in {"Transition", "none"}
                       /\ tlast.ok => tlast.t.iupac = Normalised(tok)
                       /\ ~tlast.ok => tlast.msg # "Cannot parse transition string"
                  ELSE IF \E e \in _TRANSITIONSETS : e.key = Normalised(tok)
                  THEN /\ tlast.via # "none"
                       /\ tlast.ok => tlast.kind = "transitionset"
                       /\ ~tlast.ok => tlast.msg = "No transition for"
                  ELSE /\ ~tlast.ok /\ tlast.err = "ValueError"
                       /\ tlast.msg = "Cannot parse transition string"
                       /\ tlast.text = tlast.input
        /\ \A sym \in Symbols : \A tok \in {<<"M", "b">>, <<"M", "g">>} :
              tlast.input = Text(sym, tok) => tlast.ok /\ tlast.kind = "Transition"
        /\ Cardinality({k \in 1..Len(tlast.input) : tlast.input[k] = " "}) # 1 =>
              /\ ~tlast.ok /\ tlast.err = "ValueError"
              /\ tlast.msg = "The transition string must have 2 words"

\* C7 witness: "Fe Mb", a catalogue symbol that is also a key of the
\* dispatch table, parsed to the single Transition M4-N6.
C7_Witness ==
    /\ tlast.op = "from_string" /\ tlast.ok
    /\ tlast.input = <<"F", "e", " ", "M", "b">>
    /\ \E e \in _TRANSITIONSETS : e.key = <<"M", "beta">>
    /\ tlast.kind = "Transition"
    /\ tlast.t.index = ListIndex(_SIEGBAHNS, <<"M", "beta">>)

\* C8: every documented keyword (K, L, M, N, Ka, ..., MV) that is not itself
\* a catalogue Siegbahn symbol is accepted by from_string and dispatched to
\* the builder of its name; none ends in the 'cannot parse' error.
C8_EveryKeywordDispatched ==
    tlast.op = "from_string" =>
        \A sym \in Symbols : \A e \in DocumentedKeywords :
            (/\ tlast.input = Text(sym, e.word)
             /\ ListIndex(_SIEGBAHNS, _siegbahn_ascii_to_unicode(e.word)) = -1) =>
                /\ tlast.via = e.fn
                /\ tlast.msg # "Cannot parse transition string"

(***************************************************************************)
(* Properties of Transition ordering and of get_transitions (Spec).        *)
(***************************************************************************)
\* C9: a < b iff a.z < b.z, or a.z = b.z and index(a) > index(b); this is a
\* strict total order; cmp(a, b) = 0 iff a == b iff z and index coincide,
\* and equal transitions hash equally; so get_transitions returns a list in
\* strictly descending catalogue-index order.
C9_TransitionOrder ==
    /\ tlast.kind = "compare" =>
          /\ tlast.lt <=> (tlast.t.z < tlast.other.z
                              \/ (tlast.t.z = tlast.other.z /\ tlast.t.index > tlast.other.index))
          /\ tlast.gt <=> (tlast.other.z < tlast.t.z
                              \/ (tlast.t.z = tlast.other.z /\ tlast.other.index > tlast.t.index))
          /\ (tlast.cmp = 0) <=> tlast.eq
          /\ tlast.eq <=> (tlast.t.z = tlast.other.z /\ tlast.t.index = tlast.other.index)
          /\ tlast.ne <=> ~tlast.eq
          /\ tlast.eq => Transition_hash(tlast.t) = Transition_hash(tlast.other)
          /\ tlast.rcmp = -tlast.cmp
          /\ Cardinality({x \in {"lt", "eq", "gt"} :
                            \/ x = "lt" /\ tlast.lt
                            \/ x = "eq" /\ tlast.eq
                            \/ x = "gt" /\ tlast.gt}) = 1
          /\ \A c \in Compared :
                (tlast.lt /\ Transition_lt(tlast.other, c)) => Transition_lt(tlast.t, c)
    /\ tlast.kind = "list" =>
          \A k \in 1..(Len(tlast.list) - 1) :
              /\ tlast.list[k].index > tlast.list[k + 1].index
              /\ Transition_lt(tlast.list[k], tlast.list[k + 1])

\* C9 witness: get_transitions returned diagram lines and satellites, the
\* largest catalogue index first and Ka1, of index 0, last.
C9_Witness ==
    /\ tlast.kind = "list" /\ Len(tlast.list) > 2
    /\ tlast.list[1].satellite # 0
    /\ tlast.list[Len(tlast.list) - 1].index = 1
    /\ tlast.list[Len(tlast.list)].index = 0

\* C10: get_transitions(z, lo, hi, include_satellite) returns, each once,
\* exactly the catalogue transitions t (satellites only when asked for) with
\* t.exists() and lo <= t.energy_eV <= hi, existence and energy being those
\* of t's own (src, dest, satellite) entry.
C10_ListIsOwnEntryFilter ==
    tlast.kind = "list" =>
        /\ {tlast.list[k] : k \in 1..Len(tlast.list)} =
              {t \in {TransitionAt(tlast.input[1], i) : i \in 0..(Len(_SUBSHELLS) - 1)} :
                  /\ (t.satellite = 0 \/ tlast.input[4] = 1)
                  /\ t.exists
                  /\ tlast.input[2] <= t.energy_eV
                  /\ t.energy_eV <= tlast.input[3]}
        /\ Cardinality({tlast.list[k] : k \in 1..Len(tlast.list)}) = Len(tlast.list)

(***************************************************************************)
(* Claims C11 to C20.                                                      *)
(***************************************************************************)
\* the diagram lines of the catalogue a builder stands for: those whose
\* Siegbahn symbol starts with the prefix of a family or group, those whose
\* destination is the subshell of a shell
LinesOf(b) ==
    {i \in 0..(Len(_SUBSHELLS) - 1) :
        /\ _SUBSHELLS[i + 1][3] = 0
        /\ IF b.shell THEN _SUBSHELLS[i + 1][2] = b.dest
           ELSE StartsWith(_SIEGBAHNS[i + 1], b.siegbahn)}

\* C11: a family, group or shell builder called with z returns the
\* transitionset of exactly the diagram lines it stands for that exist for z,
\* and raises ValueError when none exists; it never returns an empty set.
C11_BuilderReturnsExistingLines ==
    \A b \in Builders :
        tlast.op = b.fn =>
            LET existing == {TransitionAt(tlast.input[1], i) : i \in LinesOf(b)}
            IN IF {t \in existing : t.exists} = {}
               THEN ~tlast.ok /\ tlast.err = "ValueError"
               ELSE /\ tlast.ok
                    /\ tlast.kind = "transitionset"
                    /\ tlast.members = {t \in existing : t.exists}
                    /\ tlast.members # {}

\* Ka(26) has returned the set of K alpha 1 and K alpha 2, both existing
C11_Witness ==
    /\ tlast.op = "Ka"
    /\ tlast.ok
    /\ {m.index : m \in tlast.members} = {0, 1}

\* C12: for two transitionsets of the same z, cmp is 0 exactly when they
\* hold the same transitions, the padding of the shorter index sequence being
\* greater than every catalogue index; so a set compares below the set that
\* adds to it transitions of greater index only (the sign is the inverse of
\* the comparison of the padding with an index).
C12_SetOrderSeparates ==
    (tlast.kind = "setcompare" /\ tlast.input[1].z = tlast.input[2].z) =>
        /\ (tlast.cmp = 0) <=> (tlast.input[1].members = tlast.input[2].members)
        /\ ( /\ tlast.input[1].members \subseteq tlast.input[2].members
             /\ tlast.input[1].members # tlast.input[2].members
             /\ \A m \in tlast.input[2].members \ tlast.input[1].members :
                   \A o \in tlast.input[1].members : o.index < m.index )
            => tlast.cmp = -1

\* C13: the most_probable of a constructed transitionset is one of its
\* members and no member has a greater probability, whatever the place of
\* the members in the Transition ordering.
C13_MostProbableIsMaximal ==
    (tlast.kind = "transitionset" /\ tlast.ok) =>
        /\ tlast.most_probable \in tlast.members
        /\ \A m \in tlast.members : m.probability <= tlast.most_probable.probability

\* a set of K alpha 1 and K alpha 2 whose most probable member is K alpha 1,
\* the last of the two in the Transition ordering
C13_Witness ==
    /\ tlast.kind = "transitionset"
    /\ tlast.ok
    /\ {m.index : m \in tlast.members} = {0, 1}
    /\ tlast.most_probable.index = 0
    /\ \E m \in tlast.members :
          /\ m.probability < tlast.most_probable.probability
          /\ Transition_cmp(m, tlast.most_probable) < 0

\* C14: asking the energy of a subject that does not exist raises: no
\* Transition whose exists() is false is constructed with an energy of 0 and
\* an infinite wavelength, and energy_eV of a subshell whose exists() is
\* false does not return.
C14_AbsentSubjectRaises ==
    /\ (tlast.op = "Transition" /\ tlast.ok) => tlast.t.exists
    /\ ( /\ slast.op = "energy_eV"
         /\ ~Carlson_exists(carlson_data, slast.z, slast.subshell).exists )
            => ~slast.ok

\* C15: of a descriptor Transition exactly one of is_radiative() and
\* is_nonradiative() holds, radiative meaning that there is no secondary
\* destination subshell; is_coster_kronig() holds exactly when the transition
\* is nonradiative and its source and destination subshells have the same
\* principal quantum number, so never for a radiative transition.
C15_CosterKronigIsNonradiative ==
    (dlast.cls = "Transition" /\ dlast.ok) =>
        /\ is_radiative(dlast.obj) # is_nonradiative(dlast.obj)
        /\ is_radiative(dlast.obj) <=> (dlast.args[3].cls = "None")
        /\ is_coster_kronig(dlast.obj) <=>
              ( /\ is_nonradiative(dlast.obj)
                /\ dlast.args[1].attrs[1].attrs[1] = dlast.args[2].attrs[1].attrs[1] )

\* C16: an IUPAC token is read destination first: for every diagram line t
\* of the catalogue and every element, from_string of "<Symbol> D-S", D and
\* S being the IUPAC names of the destination and source subshells of t,
\* yields t, of destination D, source S, satellite 0 and iupac "D-S"; the
\* token "S-D" is not accepted as t.
C16_IupacDestinationFirst ==
    tlast.op = "from_string" =>
        \A sym \in Symbols : \A i \in 1..Len(_SUBSHELLS) :
            /\ ( /\ _SUBSHELLS[i][3] = 0
                 /\ tlast.input = Text(sym, SubshellIupac(_SUBSHELLS[i][2]) \o <<"-">>
                                                \o SubshellIupac(_SUBSHELLS[i][1])) )
                  => /\ tlast.ok /\ tlast.kind = "Transition"
                     /\ tlast.t = TransitionAt(ep_atomic_number(sym), i - 1)
                     /\ tlast.t.dest = _SUBSHELLS[i][2]
                     /\ tlast.t.src = _SUBSHELLS[i][1]
                     /\ tlast.t.satellite = 0
                     /\ Text(sym, tlast.t.iupac) = tlast.input
            /\ tlast.input = Text(sym, SubshellIupac(_SUBSHELLS[i][1]) \o <<"-">>
                                           \o SubshellIupac(_SUBSHELLS[i][2]))
                  => ~(tlast.ok /\ Transition_eq(tlast.t, TransitionAt(ep_atomic_number(sym), i - 1)))

\* "Fe K-L3" parsed to K alpha 1 of iron: source L3, destination K
C16_Witness ==
    /\ tlast.op = "from_string" /\ tlast.ok /\ tlast.kind = "Transition"
    /\ tlast.input = <<"F", "e", " ", "K", "-", "L", "3">>
    /\ tlast.t.index = 0
    /\ tlast.t.src = 4
    /\ tlast.t.dest = 1
    /\ tlast.t.iupac = <<"K", "-", "L", "3">>

\* the outcome of two calls is the same: the same transition, the same set
\* or the same kind of error
SameOutcome(r, q) ==
    /\ r.ok = q.ok /\ r.kind = q.kind
    /\ r.err = q.err /\ r.msg = q.msg
    /\ r.t = q.t /\ r.members = q.members /\ r.via = q.via

\* C17: a '/' and what follows it in the token is dropped before anything
\* else: from_string of "<Symbol> t/x" gives what from_string of
\* "<Symbol> t" gives; "Le" gives what "Ln" gives, and so does "Le/x".
C17_SuffixDroppedThenAlias ==
    tlast.op = "from_string" =>
        /\ \A k \in 1..Len(tlast.input) :
              ( /\ tlast.input[k] = "/"
                /\ \A j \in 1..(k - 1) : tlast.input[j] # "/"
                /\ Cardinality({j \in 1..Len(tlast.input) : tlast.input[j] = " "}) = 1 )
                  => SameOutcome(tlast, from_string(SubSeq(tlast.input, 1, k - 1)))
        /\ \A sym \in Symbols \cup {<<"X", "x">>} :
              tlast.input \in {Text(sym, <<"L", "e">>), Text(sym, <<"L", "e", "/", "x">>)}
                  => SameOutcome(tlast, from_string(Text(sym, <<"L", "n">>)))

\* "Fe Le/x" parsed to the Transition L eta, which "Fe Ln" names
C17_Witness ==
    /\ tlast.op = "from_string" /\ tlast.ok /\ tlast.kind = "Transition"
    /\ tlast.input = <<"F", "e", " ", "L", "e", "/", "x">>
    /\ tlast.t.siegbahn = <<"L", "eta">>

\* C18: a transitionset that is constructed is not empty and every member
\* has the atomic number the set was given; a construction that fails raises
\* ValueError.
C18_SetMembersShareItsZ ==
    tlast.op = "transitionset" =>
        /\ tlast.ok => /\ tlast.members # {}
                       /\ \A m \in tlast.members : m.z = tlast.z
                       /\ tlast.z = tlast.input[1]
        /\ ~tlast.ok => tlast.err = "ValueError"

\* C19: Transition(z, src, dest, satellite) is rejected by a ValueError and
\* by nothing else: when src < dest, when (src, dest, satellite) is not in
\* the catalogue ('Unknown transition'), and when a subshell is missing and
\* no Siegbahn symbol is given ('Specify shells or Siegbahn'); it succeeds
\* otherwise.
C19_RejectedByValueError ==
    tlast.op = "Transition" =>
        IF tlast.input[2] # NoneArg /\ tlast.input[3] # NoneArg
        THEN IF tlast.input[2] < tlast.input[3]
             THEN ~tlast.ok /\ tlast.err = "ValueError"
             ELSE IF ListIndex(_SUBSHELLS, <<tlast.input[2], tlast.input[3], tlast.input[4]>>) = -1
             THEN ~tlast.ok /\ tlast.err = "ValueError" /\ tlast.msg = "Unknown transition"
             ELSE tlast.ok /\ tlast.kind = "Transition"
        ELSE /\ ~tlast.ok /\ tlast.err = "ValueError"
             /\ tlast.msg = "Specify shells or Siegbahn"

\* the rows of the data file for the subject of the last query
RowsOfQuery ==
    {i \in DOMAIN carlson_file :
        /\ carlson_file[i].z = slast.z
        /\ carlson_file[i].subshell = slast.subshell.index}

C21_CatalogIsBijection ==
    /\ tlast = NoResult =>
          /\ Len(_SUBSHELLS) = Len(_SIEGBAHNS)
          /\ \A i \in 1..Len(_SUBSHELLS) : \A j \in 1..Len(_SUBSHELLS) :
                i # j => _SUBSHELLS[i] # _SUBSHELLS[j] /\ _SIEGBAHNS[i] # _SIEGBAHNS[j]
          /\ \A i \in 1..Len(_SUBSHELLS) : _SUBSHELLS[i][1] > _SUBSHELLS[i][2]
    /\ \A i \in 1..Len(_SUBSHELLS) :
          ( \/ /\ tlast.op = "Transition"
               /\ SubSeq(tlast.input, 2, 4) = _SUBSHELLS[i]
            \/ /\ tlast.op = "Transition_siegbahn"
               /\ tlast.input[2] = _SIEGBAHNS[i] )
            => /\ tlast.ok
               /\ tlast.t.index = i - 1
               /\ tlast.t.z = tlast.input[1]
               /\ <<tlast.t.src, tlast.t.dest, tlast.t.satellite>> = _SUBSHELLS[i]
               /\ tlast.t.siegbahn = _SIEGBAHNS[i]
               /\ Transition_eq(tlast.t, Transition_init(tlast.input[1], NoneArg, NoneArg, 0,
                                                         _SIEGBAHNS[i]).t)
               /\ Transition_eq(tlast.t, Transition_init(tlast.input[1], _SUBSHELLS[i][1],
                                                         _SUBSHELLS[i][2], _SUBSHELLS[i][3],
                                                         NoSiegbahn).t)

\* the satellite SK beta prime constructed from its Siegbahn symbol: the
\* last entry of the catalogue, (7, 1, 1)
C21_Witness ==
    /\ tlast.op = "Transition_siegbahn"
    /\ tlast.ok
    /\ tlast.t.index = Len(_SUBSHELLS) - 1
    /\ <<tlast.t.src, tlast.t.dest, tlast.t.satellite>> = <<7, 1, 1>>


\* the answer of the database object inst to the query op(z, subshell), by
\* the class of inst: a SuperDatabase answers energy_eV and exists from the
\* Carlson table and width_eV from the Krause-Olivier table
AnswerOf(inst, op, z, subshell) ==
    LET carlson == inst.cls \in {"SuperDatabase", "CarlsonSubshellDatabase"}
        krause == inst.cls \in {"SuperDatabase", "KrauseOlivierSubshellDatabase"}
        known(data) == z \in DOMAIN data /\ subshell.index \in DOMAIN data[z]
    IN CASE op = "energy_eV" ->
              IF carlson /\ z \in DOMAIN carlson_data
              THEN [NoShellQuery EXCEPT !.ok = TRUE,
                                        !.inf = ~known(carlson_data),
                                        !.value = IF known(carlson_data)
                                                  THEN carlson_data[z][subshell.index] ELSE 0]
              ELSE [NoShellQuery EXCEPT !.err = "ValueError"]
         [] op = "exists" ->
              [NoShellQuery EXCEPT !.ok = TRUE, !.exists = carlson /\ known(carlson_data)]
         [] op = "width_eV" ->
              IF krause /\ z \notin DOMAIN krause_data
              THEN [NoShellQuery EXCEPT !.err = "ValueError"]
              ELSE [NoShellQuery EXCEPT !.ok = TRUE,
                                        !.value = IF krause /\ known(krause_data)
                                                  THEN krause_data[z][subshell.index] ELSE 0]

\* C22: the instance is the SuperDatabase made at import until set_instance
\* is called; a call of set_instance makes its argument the instance, and
\* no other call changes the instance; get_instance returns the instance;
\* every energy_eV, exists and width_eV call of the module is answered as
\* the instance of that moment answers it, the initial SuperDatabase from
\* the Carlson table (energy_eV, exists) and the Krause-Olivier table
\* (width_eV).
C22_QueriesAnsweredByCurrentInstance ==
    /\ instance = [cls |-> "SuperDatabase", id |-> 0]
    /\ [][ /\ slast'.op = "set_instance" => instance' = slast'.by
           /\ slast'.op # "set_instance" => instance' = instance
           /\ slast'.op = "get_instance" => slast'.by = instance
           /\ slast'.op \in {"energy_eV", "exists", "width_eV"} =>
                 slast' = [AnswerOf(instance, slast'.op, slast'.z, slast'.subshell)
                              EXCEPT !.op = slast'.op, !.z = slast'.z,
                                     !.subshell = slast'.subshell] ]_vars

\* energy_eV of iron's K subshell, which the Carlson table holds, raises
\* after set_instance was given a Krause-Olivier database
C22_Witness ==
    /\ instance = [cls |-> "KrauseOlivierSubshellDatabase", id |-> 1]
    /\ slast.op = "energy_eV"
    /\ slast.err = "ValueError"
    /\ slast.z \in DOMAIN carlson_data
    /\ slast.subshell.index \in DOMAIN carlson_data[slast.z]


\* the catalogue indices of the members builder(z) returns; none when the
\* builder raises
MembersOf(builder, z) ==
    LET r == Call(builder, z)
    IN IF r.ok THEN {m.index : m \in r.members} ELSE {}

\* the families with their shells and their groups
Families ==
    {[family |-> K_family, shells |-> {}, groups |-> {Ka, Kb}],
     [family |-> L_family, shells |-> {LI, LII, LIII}, groups |-> {La, Lb, Lg}],
     [family |-> M_family, shells |-> {MI, MII, MIII, MIV, MV}, groups |-> {Ma, Mb, Mg}]}

\* C23: the members of L_family(z) are those of LI(z), LII(z) and LIII(z)
\* together, and the members of M_family(z) those of MI(z) .. MV(z), a
\* builder that raises having no members; the shells of a family have no
\* member in common, and the groups of a family have no member in common
\* and only members of the family.  The same holds of the diagram lines of
\* the whole catalogue the builders stand for.
C23_FamilyIsUnionOfShells ==
    /\ tlast = NoResult =>
          \A F \in Families :
             /\ F.shells # {} => LinesOf(F.family) = UNION {LinesOf(s) : s \in F.shells}
             /\ \A a, b \in F.shells : a # b => LinesOf(a) \cap LinesOf(b) = {}
             /\ \A a, b \in F.groups : a # b => LinesOf(a) \cap LinesOf(b) = {}
             /\ \A g \in F.groups : LinesOf(g) \subseteq LinesOf(F.family)
    /\ \A F \in Families :
          LET z == tlast.input[1]
              got == IF tlast.ok THEN {m.index : m \in tlast.members} ELSE {}
          IN /\ (tlast.op = F.family.fn /\ F.shells # {}) =>
                   got = UNION {MembersOf(s, z) : s \in F.shells}
             /\ \A a \in F.shells : tlast.op = a.fn =>
                   /\ got \subseteq MembersOf(F.family, z)
                   /\ \A b \in F.shells \ {a} : got \cap MembersOf(b, z) = {}
             /\ \A a \in F.groups : tlast.op = a.fn =>
                   /\ got \subseteq MembersOf(F.family, z)
                   /\ \A b \in F.groups \ {a} : got \cap MembersOf(b, z) = {}

\* L_family(26) has returned L alpha 1 of LIII and L beta 1 of LII
C23_Witness ==
    /\ tlast.op = "L_family"
    /\ tlast.ok
    /\ {m.index : m \in tlast.members} = {12, 31}
    /\ MembersOf(LII, tlast.input[1]) = {31}
    /\ MembersOf(LIII, tlast.input[1]) = {12}

====
